---- MODULE Spec2Model ----
(***************************************************************************)
(* A model of the agent control loop of abstergo-ai-agent:                 *)
(*   agent/loop.py        AgentOrchestrator (start, stop, _run_loop)       *)
(*   agent/state.py       AgentState, StateManager                         *)
(*   agent/actions.py     ActionStep.from_dict, parse_actions              *)
(*   agent/controller.py  ActionExecutor                                   *)
(*   agent/planners/*.py  the three planner backends and their backoff     *)
(*   app.py               the HTTP handlers that call start/stop/config    *)
(*                                                                         *)
(* Units.  Time is counted in tenths of a second (time.sleep(0.1) is 1,    *)
(* the 5 s capture interval is 50).  Confidence is counted in hundredths   *)
(* (0.55 is 55).  Python's None is the value PyNone where a string is      *)
(* expected, 0 for last_vision_time (the code tests it by truthiness) and  *)
(* the empty tuple for an absent key.                                      *)
(***************************************************************************)
EXTENDS Integers, Sequences, FiniteSets, TLC

VARIABLES
    running,               \* AgentOrchestrator.running
    lock,                  \* AgentOrchestrator.lock: "free" or the holder
    thread,                \* AgentOrchestrator.thread: 0 (None) or the worker last spawned
    state,                 \* StateManager.state (the in-memory AgentState)
    file,                  \* the state file written by StateManager.save
    last_screenshot,       \* AgentOrchestrator.last_screenshot
    last_vision_time,      \* AgentOrchestrator.last_vision_time (0 is None)
    pending_actions,       \* AgentOrchestrator.pending_actions
    cached_plan_key,       \* AgentOrchestrator.cached_plan_key (<<>> is None)
    cached_plan_response,  \* AgentOrchestrator.cached_plan_response
    cached_plan_consumed,  \* AgentOrchestrator.cached_plan_consumed
    last_logged,           \* AgentOrchestrator.last_logged (<<>> is None)
    plan_calls,            \* the fingerprints the loop has called planner.plan() for
    now,                   \* the wall clock read by time.time()
    pc,                    \* position of every worker thread in _run_loop
    loc,                   \* the local variables of every worker's current tick
    cpc,                   \* position of the calling (HTTP handler) thread
    cargs,                 \* the request the calling thread is serving, or served last
    backend,               \* the planner create_planner() built
    client,                \* GeminiPlanner.client is set (the SDK and key are there)
    next_allowed_time,     \* <planner>.next_allowed_time (0 is "no backoff")
    failure_count,         \* LocalVLMPlanner.failure_count
    request_lock,          \* LocalVLMPlanner._request_lock: 0 (free) or the holder
    next_vision_allowed_time, \* HybridPlanner.next_vision_allowed_time
    last_scene_key,        \* HybridPlanner.last_scene_key (<<>> is None)
    pkey,                  \* the screenshot_key of every thread's current plan() call
    ppc,                   \* position of every thread that calls planner.plan()
    last_failure,          \* the last failed backend call: when it failed, its backoff,
                           \* the backoff of the failure before it and how many
                           \* failures there were in a row (0 after a success)
    plan_result,           \* what every thread's last plan() call returned
    last_capture_size,     \* ActionExecutor.last_capture_size (<<>> is None)
    pointer,               \* where the adapter last moved, clicked or dragged to
    actions_to_run,        \* the ActionSteps handed to ActionExecutor.execute
    summaries,             \* what ActionExecutor.execute returned last
    dispatched,            \* the _execute_step calls of the last execute(): the step,
                           \* when it began and when it ended, counted from the
                           \* beginning of execute(), and the calls the adapter
                           \* received from it
    snapshots,             \* the file names snapshot_state has written, in order
    since_plan,            \* since the loop last called planner.plan(): the batches
                           \* it handed to execute() and the captures it took
    action_log             \* the entries of actions.log: summary and plan_key

vars == <<running, lock, thread, state, file, last_screenshot, last_vision_time,
          pending_actions, cached_plan_key, cached_plan_response,
          cached_plan_consumed, last_logged, plan_calls, now, pc, loc, cpc,
          cargs, backend, client, next_allowed_time, failure_count, request_lock,
          next_vision_allowed_time, last_scene_key, pkey, ppc, last_failure,
          plan_result, last_capture_size, pointer, actions_to_run, summaries,
          dispatched, snapshots, since_plan, action_log>>

orchVars == <<running, lock, thread, state, file, last_screenshot, last_vision_time,
              pending_actions, cached_plan_key, cached_plan_response,
              cached_plan_consumed, last_logged, plan_calls, pc, loc, cpc,
              cargs, last_capture_size, pointer, actions_to_run, summaries,
              dispatched, snapshots, since_plan, action_log>>

execVars == <<last_capture_size, pointer, actions_to_run, summaries, dispatched>>

loopVars == <<running, lock, thread, state, file, last_screenshot, last_vision_time,
              pending_actions, cached_plan_key, cached_plan_response,
              cached_plan_consumed, last_logged, plan_calls, pc, loc, cpc,
              cargs, snapshots, since_plan, action_log>>

plannerVars == <<backend, client, next_allowed_time, failure_count,
                 request_lock, next_vision_allowed_time, last_scene_key, pkey,
                 ppc, last_failure, plan_result>>

----------------------------------------------------------------------------
(* Bounds of the model.                                                    *)

\* How many times start() may spawn a worker (the worker threads are 1..MaxStarts).
MaxStarts == 2

\* The clock value after which no new tick is begun, in the concurrent model.
MaxTime == 12

\* The same horizon in the model with a well-behaved caller.
MaxTimeSeq == 12

\* The clock value after which plan() is no longer called, in the planner model.
MaxClock == 200

\* The horizon of the model of one worker's ticks over many kinds of plan.
MaxTimeTick == 6

\* The clock value after which the executor is no longer called, in its own model.
MaxTimeExec == 8

\* The same horizon in the planner model with one caller.
MaxClockSeq == 1400

\* The worker starts no tick after this time in the model of the activity window.
MaxTimeWindow == 52

----------------------------------------------------------------------------
(* Program constants.                                                      *)

MIN_CONFIDENCE == 55      \* parse_actions(..., min_confidence=0.55)
CaptureInterval == 50     \* now - self.last_vision_time < 5
WindowSleep == 50         \* time.sleep(5) outside the activity window
JoinTimeout == 10         \* self.thread.join(timeout=1.0)
DefaultSleep == 5         \* sleep_after_loop = 0.5
ReducedSleep == 2         \* sleep_after_loop = 0.2
ShortSleep == 1           \* sleep_after_loop = 0.1
FallbackConfidence == 50  \* DEFAULT_REFLECTION confidence 0.5
FallbackWait == 20        \* DEFAULT_REFLECTION wait_seconds 2.0
DefaultDecay == 3         \* decay_emotions(decay=0.03), in hundredths
TickStimulus == 200       \* stimulate_emotions(0.02), in ten-thousandths

PyNone == "<None>"

Workers == 1..MaxStarts

SUPPORTED_ACTIONS ==
    {"MOVE", "CLICK", "DOUBLE_CLICK", "DRAG", "SCROLL", "TYPE", "KEYPRESS",
     "WAIT", "FOCUS_WINDOW"}

----------------------------------------------------------------------------
(* JSON values as the planner returns them.  A number is [t |-> "num"],    *)
(* a string [t |-> "str"], an absent key [t |-> "missing"].                *)

JNum(n) == [t |-> "num", v |-> n, s |-> ""]
JStr(x) == [t |-> "str", v |-> 0, s |-> x]
JMissing == [t |-> "missing", v |-> 0, s |-> ""]
JNaN == [t |-> "nan", v |-> 0, s |-> ""]

\* float("nan"): json.loads reads the literal NaN as it.  It stands apart from
\* every number of the model and every comparison with it is false.
NaN == -1000000

\* a < b and a >= b on floats.
Less(a, b) == a # NaN /\ b # NaN /\ a < b

AtLeast(a, b) == a # NaN /\ b # NaN /\ a >= b

\* float(data.get(key, 0.0)): a missing key is the default 0.0, a number is
\* itself, a string that is not a number raises ValueError.
FloatRaises(j) == j.t = "str"

FloatOf(j) == IF j.t = "num" THEN j.v ELSE IF j.t = "nan" THEN NaN ELSE 0

\* data.get("action", "WAIT")
ActionOf(j) == IF j.t = "missing" THEN "WAIT" ELSE j.s

RawStep(action, confidence, wait_seconds, target, rationale) ==
    [action |-> action, confidence |-> confidence,
     wait_seconds |-> wait_seconds, target |-> target, rationale |-> rationale]

\* A JSON array of strings and a JSON object with dx and dy, each a number
\* (in tenths) or missing.
JList(items) == [t |-> "list", v |-> 0, s |-> "", items |-> items]
JScroll(dx, dy) == [t |-> "object", v |-> 0, s |-> "", dx |-> dx, dy |-> dy]

\* text=data.get("text"): the string, None without one.
TextOf(j) == IF j.t = "str" THEN j.s ELSE PyNone

\* keys=data.get("keys"): the key names; <<>> stands for None and for [],
\* which the code does not tell apart.
KeysOf(j) == IF j.t = "list" THEN j.items ELSE <<>>

\* scroll=data.get("scroll"): dx and dy as given; <<>> stands for None and {}.
ScrollOf(j) ==
    IF j.t = "object" /\ (j.dx.t # "missing" \/ j.dy.t # "missing")
    THEN <<j.dx, j.dy>> ELSE <<>>

\* ActionStep.from_dict raises when float() is given a non-numeric value.
FromDictRaises(raw) ==
    FloatRaises(raw.confidence) \/ FloatRaises(raw.wait_seconds)

\* data.get(key) of a raw step.
Get(raw, key) == IF key \in DOMAIN raw THEN raw[key] ELSE JMissing

\* int(value) inside try/except: a value that int() rejects gives the default,
\* and so does a missing key, whose default int() accepts.
IntOr(j, default) == IF j.t = "num" THEN j.v ELSE default

\* The clamp without its upper "if".
ClampBelow(value, low, high) == IF value < low THEN low ELSE value

\* The two "if" statements that bring a value back between low and high.
Clamp(value, low, high) ==
    LET raised == IF value < low THEN low ELSE value
    IN  IF raised > high THEN high ELSE raised

\* ActionStep.from_dict: the fields the loop and the executor read.
from_dict(raw) ==
    [action |-> ActionOf(raw.action),
     confidence |-> FloatOf(raw.confidence),
     wait_seconds |-> FloatOf(raw.wait_seconds),
     target |-> raw.target,
     rationale |-> raw.rationale,
     text |-> TextOf(Get(raw, "text")),
     keys |-> KeysOf(Get(raw, "keys")),
     scroll |-> ScrollOf(Get(raw, "scroll")),
     repeat |-> Clamp(IntOr(Get(raw, "repeat"), 1), 1, 10),
     hold_ms |-> Clamp(IntOr(Get(raw, "hold_ms"), 0), 0, 2000)]

\* A planner response: a JSON object with an "actions" array, JSON null
\* (json.loads gives None) or any other JSON value that is not an object.
Response(kind, actions) == [kind |-> kind, actions |-> actions]

NoResponse == Response("null", <<>>)

\* parse_actions calls response.get: an AttributeError when the response is
\* not a dict; from_dict may raise for any raw step.
ParseRaises(response) ==
    \/ response.kind = "array"
    \/ \E i \in 1..Len(response.actions) : FromDictRaises(response.actions[i])

\* The same test without the exemption of WAIT.
EligibleNoWait(step, min_confidence) == ~Less(step.confidence, min_confidence)

\* The test of parse_actions and of ActionExecutor.execute: a step is skipped
\* when it is not a WAIT and its confidence is below the threshold.
Eligible(step, min_confidence) ==
    ~(step.action # "WAIT" /\ Less(step.confidence, min_confidence))

\* The test of the loop's own filter (line 145).
LoopKeeps(step) ==
    step.action = "WAIT" \/ AtLeast(step.confidence, MIN_CONFIDENCE)

RECURSIVE LoopFilter(_)
LoopFilter(actions) ==
    IF actions = <<>> THEN <<>>
    ELSE IF LoopKeeps(Head(actions))
         THEN <<Head(actions)>> \o LoopFilter(Tail(actions))
         ELSE LoopFilter(Tail(actions))

\* The filter that collects the steps it keeps last to first.
RECURSIVE FilterStepsBackwards(_, _)
FilterStepsBackwards(steps, min_confidence) ==
    IF steps = <<>> THEN <<>>
    ELSE LET rest == FilterStepsBackwards(Tail(steps), min_confidence)
         IN  IF Eligible(Head(steps), min_confidence)
             THEN rest \o <<Head(steps)>>
             ELSE rest

RECURSIVE FilterSteps(_, _)
FilterSteps(steps, min_confidence) ==
    IF steps = <<>> THEN <<>>
    ELSE LET rest == FilterSteps(Tail(steps), min_confidence)
         IN  IF Eligible(Head(steps), min_confidence)
             THEN <<Head(steps)>> \o rest
             ELSE rest

\* parse_actions(response, min_confidence)
parse_actions(response, min_confidence) ==
    FilterSteps([i \in 1..Len(response.actions) |-> from_dict(response.actions[i])],
                min_confidence)

\* f"{value:.2f}" of a value counted in hundredths.
Fmt2(c) ==
    IF c = NaN THEN "nan"
    ELSE IF c < 0 THEN "-" \o ToString((-c) \div 100) \o "." \o ToString(((-c) \div 10) % 10)
                      \o ToString((-c) % 10)
    ELSE ToString(c \div 100) \o "." \o ToString((c \div 10) % 10) \o ToString(c % 10)

\* "+".join(keys)
RECURSIVE Join(_)
Join(keys) ==
    IF Len(keys) = 1 THEN keys[1] ELSE keys[1] \o "+" \o Join(Tail(keys))

\* ActionStep.summary(): the kind, the key combination of a KEYPRESS or else
\* the target if any, the confidence.
summary(step) ==
    LET target_desc ==
            IF step.target = <<>> THEN ""
            ELSE " @ (" \o Fmt2(step.target[1]) \o "," \o Fmt2(step.target[2]) \o ")"
        rep == IF step.repeat > 1 THEN "x" \o ToString(step.repeat) ELSE ""
        hold == IF step.hold_ms # 0 THEN " hold=" \o ToString(step.hold_ms) \o "ms"
                ELSE ""
    IN  IF step.action = "KEYPRESS" /\ step.keys # <<>>
        THEN step.action \o "(" \o Join(step.keys) \o rep \o hold \o ") ("
                 \o Fmt2(step.confidence) \o ")"
        ELSE step.action \o target_desc \o " (" \o Fmt2(step.confidence) \o ")"

\* _fallback with a step of another kind than WAIT.
FallbackClick(reason) ==
    Response("object",
             <<RawStep(JStr("CLICK"), JNum(FallbackConfidence), JNum(FallbackWait),
                       <<>>, reason)>>)

\* <planner>._fallback(reason): the one WAIT step of DEFAULT_REFLECTION, its
\* rationale replaced by the reason.
Fallback(reason) ==
    Response("object",
             <<RawStep(JStr("WAIT"), JNum(FallbackConfidence), JNum(FallbackWait),
                       <<>>, reason)>>)

----------------------------------------------------------------------------
(* Agent State and the State Store (agent/state.py).                       *)

\* An affect component is a float counted in ten-thousandths (1.0 is Unit); a
\* product is rounded down to the next ten-thousandth.
Unit == 10000

\* [0.2] * 10
DefaultAffect == [i \in 1..10 |-> 2000]

\* AgentState(): the defaults of the dataclass.  last_action_time reads 0 for
\* None; session_start_time is the clock at construction.
DefaultState ==
    [current_mode |-> "GOAL", current_goal |-> "", current_task |-> "",
     last_action |-> "", last_action_time |-> 0, agent_status |-> "STOPPED",
     inner_monologue_summary |-> "", emotion_vector |-> DefaultAffect,
     session_start_time |-> 1, time_active_today |-> 0,
     active_window_start |-> PyNone, active_window_stop |-> PyNone]

\* update_after_action that replaces the monologue whatever it held.
update_after_action_overwrites(st, s, t) ==
    [st EXCEPT !.last_action = s,
               !.last_action_time = t,
               !.agent_status = "ACTIVE",
               !.inner_monologue_summary = s]

\* AgentState.update_after_action(summary), when the clock reads t
update_after_action(st, s, t) ==
    [st EXCEPT !.last_action = s,
               !.last_action_time = t,
               !.agent_status = "ACTIVE",
               !.inner_monologue_summary =
                    IF st.inner_monologue_summary = "" THEN s
                    ELSE st.inner_monologue_summary]

\* StateManager.update_after_action for every summary of a batch, in order.
RECURSIVE UpdateAll(_, _, _)
UpdateAll(st, sums, t) ==
    IF sums = <<>> THEN st
    ELSE UpdateAll(update_after_action(st, Head(sums), t), Tail(sums), t)

\* The builtin min(a, b): b when b < a, else a (a NaN compares false).
PyMin(a, b) == IF Less(b, a) THEN b ELSE a

\* The builtin max(a, b): b when b > a, else a.
PyMax(a, b) == IF Less(a, b) THEN b ELSE a

\* value * (1 - decay), decay in hundredths
Decayed(value, decay) ==
    IF value = NaN \/ decay = NaN THEN NaN ELSE (value * (100 - decay)) \div 100

\* value + delta, delta in ten-thousandths
Raised(value, delta) ==
    IF value = NaN \/ delta = NaN THEN NaN ELSE value + delta

\* decay_emotions without the clamp
decay_unclamped(vector, decay) ==
    [i \in DOMAIN vector |-> Decayed(vector[i], decay)]

\* AgentState.decay_emotions(decay)
decay_emotions(vector, decay) ==
    [i \in DOMAIN vector |-> PyMax(0, PyMin(Unit, Decayed(vector[i], decay)))]

\* AgentState.stimulate_emotions(delta)
stimulate_emotions(vector, delta) ==
    [i \in DOMAIN vector |-> PyMax(0, PyMin(Unit, Raised(vector[i], delta)))]

\* StateManager.save(): the file holds the whole state.
Saved(st) == <<st>>

----------------------------------------------------------------------------
(* The activity window (AgentOrchestrator._in_active_window).              *)

\* datetime.strptime(s, "%H:%M").time(), in minutes since midnight; a string
\* outside this table does not match the format and raises ValueError.
ParsesHM(s) == s \in {"09:00", "17:00"}

HM(s) == IF s = "09:00" THEN 540 ELSE 1020

\* "not x" for an Optional[str]
Falsy(s) == s = PyNone \/ s = ""

WindowRaises(st) ==
    /\ ~Falsy(st.active_window_start)
    /\ ~Falsy(st.active_window_stop)
    /\ ~(ParsesHM(st.active_window_start) /\ ParsesHM(st.active_window_stop))

\* The window check that lets a window run past midnight.
in_active_window_wrapping(st, tod) ==
    IF Falsy(st.active_window_start) \/ Falsy(st.active_window_stop) THEN TRUE
    ELSE IF HM(st.active_window_start) <= HM(st.active_window_stop)
    THEN HM(st.active_window_start) <= tod /\ tod <= HM(st.active_window_stop)
    ELSE HM(st.active_window_start) <= tod \/ tod <= HM(st.active_window_stop)

\* tod is datetime.now().time(), in minutes since midnight.
in_active_window(st, tod) ==
    IF Falsy(st.active_window_start) \/ Falsy(st.active_window_stop) THEN TRUE
    ELSE HM(st.active_window_start) <= tod /\ tod <= HM(st.active_window_stop)

----------------------------------------------------------------------------
(* Observations and the context fingerprint.                               *)

Shot(image) == [image |-> image, width |-> 1000, height |-> 800]

NoShot == [image |-> PyNone, width |-> 0, height |-> 0]

\* AgentOrchestrator._screenshot_key: the digest of the pixels and the size.
screenshot_key(shot) ==
    IF shot = NoShot THEN <<>>
    ELSE <<"sha256", shot.image, shot.width, shot.height>>

\* context_key of _run_loop: the observation key, the perception marker
\* (last_vision_time or 0) and the goal, task and mode.
context_key(shot, marker, st) ==
    <<screenshot_key(shot), marker, st.current_goal, st.current_task,
      st.current_mode>>

----------------------------------------------------------------------------
(* The initial state: AgentOrchestrator.__init__ with no state file.       *)

InitLoc ==
    [shot |-> NoShot, key |-> <<>>, sleep |-> DefaultSleep, run |-> <<>>,
     sums |-> <<>>, dump |-> <<>>]

NoCall == [op |-> "none", mode |-> "GOAL", goal |-> "",
           active_start |-> PyNone, active_stop |-> PyNone]

NoFailure == [at |-> 0, backoff |-> 0, prev |-> 0, streak |-> 0]

\* AgentOrchestrator.__init__, but for the state manager
InitLoop ==
    /\ running = FALSE
    /\ lock = "free"
    /\ thread = 0
    /\ last_screenshot = NoShot
    /\ last_vision_time = 0
    /\ pending_actions = <<>>
    /\ cached_plan_key = <<>>
    /\ cached_plan_response = NoResponse
    /\ cached_plan_consumed = FALSE
    /\ last_logged = <<>>
    /\ plan_calls = {}
    /\ pc = [w \in Workers |-> "unborn"]
    /\ loc = [w \in Workers |-> InitLoc]
    /\ cargs = NoCall
    /\ last_capture_size = <<>>
    /\ pointer = <<>>
    /\ actions_to_run = <<>>
    /\ summaries = <<>>
    /\ dispatched = <<>>
    /\ snapshots = <<>>
    /\ since_plan = [batches |-> 0, captures |-> 0]
    /\ action_log = <<>>

\* The orchestrator once StateManager(path) has found no state file.
InitOrchestrator ==
    /\ InitLoop
    /\ state = DefaultState
    /\ file = <<>>
    /\ cpc = "idle"

InitPlanner ==
    /\ backend = "gemini"
    /\ client = TRUE
    /\ next_allowed_time = 0
    /\ failure_count = 0
    /\ request_lock = 0
    /\ next_vision_allowed_time = 0
    /\ last_scene_key = <<>>
    /\ pkey = [w \in Workers |-> <<>>]
    /\ ppc = [w \in Workers |-> "idle"]
    /\ last_failure = NoFailure
    /\ plan_result = [w \in Workers |-> NoResponse]

Init ==
    /\ InitOrchestrator
    /\ InitPlanner
    /\ now = 1

----------------------------------------------------------------------------
(* The calling thread: app.py's handlers calling start, stop and the       *)
(* state manager.                                                          *)

Call(op, a) ==
    [op |-> op, mode |-> a.mode, goal |-> a.goal,
     active_start |-> a.active_start, active_stop |-> a.active_stop]

Args(mode, goal, active_start, active_stop) ==
    [mode |-> mode, goal |-> goal, active_start |-> active_start,
     active_stop |-> active_stop]

\* start() without the test of the flag on line 45.
StartEnterUnguarded(a) ==
    /\ cpc = "idle"
    /\ lock = "free"
    /\ thread < MaxStarts
    /\ cargs' = Call("start", a)
    /\ lock' = "caller"
    /\ cpc' = "set_goal"
    /\ UNCHANGED <<running, thread, state, file, last_screenshot, last_vision_time,
                   pending_actions, cached_plan_key, cached_plan_response,
                   cached_plan_consumed, last_logged, now, pc, loc>>
    /\ UNCHANGED <<plan_calls, plannerVars, execVars, snapshots, since_plan, action_log>>

\* start(), lines 44-46: take the lock; return at once when already running.
StartEnter(a) ==
    /\ cpc = "idle"
    /\ lock = "free"
    /\ thread < MaxStarts
    /\ cargs' = Call("start", a)
    /\ IF running
       THEN UNCHANGED <<lock, cpc>>
       ELSE lock' = "caller" /\ cpc' = "set_goal"
    /\ UNCHANGED <<running, thread, state, file, last_screenshot, last_vision_time,
                   pending_actions, cached_plan_key, cached_plan_response,
                   cached_plan_consumed, last_logged, now, pc, loc>>
    /\ UNCHANGED <<plan_calls, plannerVars, execVars, snapshots, since_plan, action_log>>

\* start(), line 47: state_manager.set_goal(goal, mode)
StartSetGoal ==
    /\ cpc = "set_goal"
    /\ state' = [state EXCEPT !.current_goal = cargs.goal,
                              !.current_mode = cargs.mode]
    /\ file' = Saved(state')
    /\ cpc' = "set_window"
    /\ UNCHANGED <<running, lock, thread, last_screenshot, last_vision_time,
                   pending_actions, cached_plan_key, cached_plan_response,
                   cached_plan_consumed, last_logged, now, pc, loc, cargs>>
    /\ UNCHANGED <<plan_calls, plannerVars, execVars, snapshots, since_plan, action_log>>

\* start(), line 48: state_manager.set_active_window(start, stop)
StartSetWindow ==
    /\ cpc = "set_window"
    /\ state' = [state EXCEPT !.active_window_start = cargs.active_start,
                              !.active_window_stop = cargs.active_stop]
    /\ file' = Saved(state')
    /\ cpc' = "spawn"
    /\ UNCHANGED <<running, lock, thread, last_screenshot, last_vision_time,
                   pending_actions, cached_plan_key, cached_plan_response,
                   cached_plan_consumed, last_logged, now, pc, loc, cargs>>
    /\ UNCHANGED <<plan_calls, plannerVars, execVars, snapshots, since_plan, action_log>>

\* start(), lines 49-52: mark_active, set the flag, spawn the worker, release.
StartSpawn ==
    /\ cpc = "spawn"
    /\ state' = [state EXCEPT !.agent_status = "ACTIVE"]
    /\ file' = Saved(state')
    /\ running' = TRUE
    /\ thread' = thread + 1
    /\ pc' = [pc EXCEPT ![thread + 1] = "top"]
    /\ lock' = "free"
    /\ cpc' = "idle"
    /\ UNCHANGED <<last_screenshot, last_vision_time, pending_actions,
                   cached_plan_key, cached_plan_response, cached_plan_consumed,
                   last_logged, now, loc, cargs>>
    /\ UNCHANGED <<plan_calls, plannerVars, execVars, snapshots, since_plan, action_log>>

\* stop(), lines 55-56: take the lock and clear the flag.
StopEnter(horizon) ==
    /\ cpc = "idle"
    /\ lock = "free"
    /\ now <= horizon
    /\ cargs' = Call("stop", NoCall)
    /\ running' = FALSE
    /\ lock' = "caller"
    /\ cpc' = "mark_stopped"
    /\ UNCHANGED <<thread, state, file, last_screenshot, last_vision_time,
                   pending_actions, cached_plan_key, cached_plan_response,
                   cached_plan_consumed, last_logged, now, pc, loc>>
    /\ UNCHANGED <<plan_calls, plannerVars, execVars, snapshots, since_plan, action_log>>

\* stop(), line 57: mark_stopped, then the lock is released.
StopMark ==
    /\ cpc = "mark_stopped"
    /\ state' = [state EXCEPT !.agent_status = "STOPPED"]
    /\ file' = Saved(state')
    /\ lock' = "free"
    /\ cpc' = IF thread = 0 THEN "idle" ELSE "join"
    /\ UNCHANGED <<running, thread, last_screenshot, last_vision_time,
                   pending_actions, cached_plan_key, cached_plan_response,
                   cached_plan_consumed, last_logged, now, pc, loc, cargs>>
    /\ UNCHANGED <<plan_calls, plannerVars, execVars, snapshots, since_plan, action_log>>

Terminated(w) == pc[w] \in {"unborn", "done", "crashed"}

Alive(w) == ~Terminated(w)

\* stop(), lines 58-59: thread.join(timeout=1.0) returns when the worker has
\* ended, or after one second.
StopJoin ==
    /\ cpc = "join"
    /\ now' = IF Terminated(thread) THEN now ELSE now + JoinTimeout
    /\ cpc' = "idle"
    /\ UNCHANGED <<running, lock, thread, state, file, last_screenshot,
                   last_vision_time, pending_actions, cached_plan_key,
                   cached_plan_response, cached_plan_consumed, last_logged, pc,
                   loc, cargs>>
    /\ UNCHANGED <<plan_calls, plannerVars, execVars, snapshots, since_plan, action_log>>

\* app.py api_config: set_goal and set_active_window, without the lock.
Config(a) ==
    /\ cpc = "idle"
    /\ cargs' = Call("config", a)
    /\ state' = [state EXCEPT !.current_goal = a.goal,
                              !.current_mode = a.mode,
                              !.active_window_start = a.active_start,
                              !.active_window_stop = a.active_stop]
    /\ file' = Saved(state')
    /\ UNCHANGED <<running, lock, thread, last_screenshot, last_vision_time,
                   pending_actions, cached_plan_key, cached_plan_response,
                   cached_plan_consumed, last_logged, now, pc, loc, cpc>>
    /\ UNCHANGED <<plan_calls, plannerVars, execVars, snapshots, since_plan, action_log>>

----------------------------------------------------------------------------
(* The worker thread: AgentOrchestrator._run_loop.                         *)

\* The top of the loop without the test of the flag on lines 97-98.
LoopTopIgnoresFlag(w, horizon) ==
    /\ pc[w] = "top"
    /\ lock = "free"
    /\ now <= horizon
    /\ pc' = [pc EXCEPT ![w] = "window"]
    /\ UNCHANGED <<running, lock, thread, state, file, last_screenshot,
                   last_vision_time, pending_actions, cached_plan_key,
                   cached_plan_response, cached_plan_consumed, last_logged, now,
                   loc, cpc, cargs>>
    /\ UNCHANGED <<plan_calls, plannerVars, execVars, snapshots, since_plan, action_log>>

\* The top of the loop with the lock kept for the whole tick.
LoopTopKeepsLock(w, horizon) ==
    /\ pc[w] = "top"
    /\ lock \in {"free", "worker"}
    /\ IF ~running
       THEN pc' = [pc EXCEPT ![w] = "done"] /\ lock' = "free"
       ELSE /\ now <= horizon
            /\ pc' = [pc EXCEPT ![w] = "window"]
            /\ lock' = "worker"
    /\ UNCHANGED <<running, thread, state, file, last_screenshot,
                   last_vision_time, pending_actions, cached_plan_key,
                   cached_plan_response, cached_plan_consumed, last_logged, now,
                   loc, cpc, cargs>>
    /\ UNCHANGED <<plan_calls, plannerVars, execVars, snapshots, since_plan, action_log>>

\* Lines 96-99: under the lock, leave the loop when the flag is cleared; the
\* lock is released on leaving the with block, before the window check.
LoopTop(w, horizon) ==
    /\ pc[w] = "top"
    /\ lock = "free"
    /\ IF ~running
       THEN pc' = [pc EXCEPT ![w] = "done"]
       ELSE /\ now <= horizon
            /\ pc' = [pc EXCEPT ![w] = "window"]
    /\ UNCHANGED <<running, lock, thread, state, file, last_screenshot,
                   last_vision_time, pending_actions, cached_plan_key,
                   cached_plan_response, cached_plan_consumed, last_logged, now,
                   loc, cpc, cargs>>
    /\ UNCHANGED <<plan_calls, plannerVars, execVars, snapshots, since_plan, action_log>>

\* Lines 101-102 and 107: the window check, then mark_sleeping or mark_active.
\* strptime raises ValueError for a bound that is not HH:MM; nothing in the
\* loop catches it.
WindowCheck(w, tod) ==
    /\ pc[w] = "window"
    /\ IF WindowRaises(state)
       THEN /\ pc' = [pc EXCEPT ![w] = "crashed"]
            /\ UNCHANGED <<state, file>>
       ELSE IF in_active_window(state, tod)
       THEN /\ state' = [state EXCEPT !.agent_status = "ACTIVE"]
            /\ file' = Saved(state')
            /\ pc' = [pc EXCEPT ![w] = "observe"]
       ELSE /\ state' = [state EXCEPT !.agent_status = "SLEEPING"]
            /\ file' = Saved(state')
            /\ pc' = [pc EXCEPT ![w] = "reflect"]
    /\ UNCHANGED <<running, lock, thread, last_screenshot, last_vision_time,
                   pending_actions, cached_plan_key, cached_plan_response,
                   cached_plan_consumed, last_logged, now, loc, cpc, cargs>>
    /\ UNCHANGED <<plan_calls, plannerVars, execVars, snapshots, since_plan, action_log>>

\* storage.snapshot_state: the name of the file it writes when the clock reads
\* t ("state-%Y%m%dT%H%M%SZ.json": the second, and nothing finer).
SnapshotName(t) == t \div 10

\* _reflect without snapshot_state.
ReflectNoSnapshot(w) ==
    /\ pc[w] = "reflect"
    /\ state' = [state EXCEPT
                    !.emotion_vector = decay_emotions(state.emotion_vector, DefaultDecay),
                    !.inner_monologue_summary =
                        "Sleeping and reflecting on recent actions."]
    /\ file' = Saved(state')
    /\ now' = now + WindowSleep
    /\ pc' = [pc EXCEPT ![w] = "top"]
    /\ UNCHANGED <<running, lock, thread, last_screenshot, last_vision_time,
                   pending_actions, cached_plan_key, cached_plan_response,
                   cached_plan_consumed, last_logged, loc, cpc, cargs>>
    /\ UNCHANGED <<plan_calls, plannerVars, execVars, snapshots, since_plan, action_log>>

\* Lines 103-105: _reflect (decay_emotions, update_monologue, which saves,
\* snapshot_state), then time.sleep(5).
Reflect(w) ==
    /\ pc[w] = "reflect"
    /\ state' = [state EXCEPT
                    !.emotion_vector = decay_emotions(state.emotion_vector, DefaultDecay),
                    !.inner_monologue_summary =
                        "Sleeping and reflecting on recent actions."]
    /\ file' = Saved(state')
    /\ snapshots' = Append(snapshots, SnapshotName(now))
    /\ now' = now + WindowSleep
    /\ pc' = [pc EXCEPT ![w] = "top"]
    /\ UNCHANGED <<running, lock, thread, last_screenshot, last_vision_time,
                   pending_actions, cached_plan_key, cached_plan_response,
                   cached_plan_consumed, last_logged, loc, cpc, cargs>>
    /\ UNCHANGED <<plan_calls, plannerVars, execVars, since_plan, action_log>>

\* _maybe_capture without its test: a capture on every tick.
CapturesAlways == TRUE

\* _maybe_capture: no capture within the interval of the last one.
Captures == ~(last_vision_time # 0 /\ now - last_vision_time < CaptureInterval)

\* since_plan after a tick's _maybe_capture that is followed by no plan() call.
Seen(captured) ==
    [since_plan EXCEPT !.captures = IF captured THEN @ + 1 ELSE @]

\* Lines 142-148 for a plan response: the steps to queue, or the short sleep.
Queued(response) ==
    IF response = NoResponse THEN <<>>
    ELSE LoopFilter(parse_actions(response, MIN_CONFIDENCE))

\* The tick without the comparison on line 127: it plans whenever nothing is
\* pending.
ObserveWithoutCache(w, captured) ==
    /\ pc[w] = "observe"
    /\ LET shot == IF Captures THEN captured ELSE last_screenshot
           marker == IF Captures THEN now ELSE last_vision_time
           key == context_key(shot, marker, state)
       IN  /\ last_screenshot' = shot
           /\ last_vision_time' = marker
           /\ IF pending_actions # <<>>
              THEN /\ pc' = [pc EXCEPT ![w] = "execute"]
                   /\ loc' = [loc EXCEPT ![w].shot = shot]
                   /\ since_plan' = Seen(Captures)
                   /\ UNCHANGED plan_calls
              ELSE /\ pc' = [pc EXCEPT ![w] = "planning"]
                   /\ loc' = [loc EXCEPT ![w].shot = shot, ![w].key = key]
                   /\ plan_calls' = plan_calls \cup {key}
                   /\ since_plan' = [batches |-> 0, captures |-> 0]
    /\ UNCHANGED <<running, lock, thread, state, file, pending_actions,
                   cached_plan_key, cached_plan_response, cached_plan_consumed,
                   last_logged, now, cpc, cargs>>
    /\ UNCHANGED <<plannerVars, execVars, snapshots, action_log>>

\* Lines 108-132 and 142-148: capture or reuse the observation; with nothing
\* pending, compute the fingerprint and consult the cache.  A differing
\* fingerprint leaves the worker inside planner.plan().
Observe(w, captured) ==
    /\ pc[w] = "observe"
    /\ LET shot == IF Captures THEN captured ELSE last_screenshot
           marker == IF Captures THEN now ELSE last_vision_time
           key == context_key(shot, marker, state)
           hit == cached_plan_key = key
           usable == cached_plan_response # NoResponse /\ ~cached_plan_consumed
       IN  /\ last_screenshot' = shot
           /\ last_vision_time' = marker
           /\ IF pending_actions # <<>>
              THEN /\ pc' = [pc EXCEPT ![w] = "execute"]
                   /\ loc' = [loc EXCEPT ![w].shot = shot]
                   /\ since_plan' = Seen(Captures)
                   /\ UNCHANGED <<pending_actions, plan_calls>>
              ELSE IF ~hit
              THEN /\ pc' = [pc EXCEPT ![w] = "planning"]
                   /\ loc' = [loc EXCEPT ![w].shot = shot, ![w].key = key]
                   /\ plan_calls' = plan_calls \cup {key}
                   /\ since_plan' = [batches |-> 0, captures |-> 0]
                   /\ UNCHANGED pending_actions
              ELSE IF usable /\ ParseRaises(cached_plan_response)
              THEN /\ pc' = [pc EXCEPT ![w] = "crashed"]
                   /\ loc' = [loc EXCEPT ![w].shot = shot, ![w].key = key]
                   /\ since_plan' = Seen(Captures)
                   /\ UNCHANGED <<pending_actions, plan_calls>>
              ELSE /\ pc' = [pc EXCEPT ![w] = "execute"]
                   /\ loc' = [loc EXCEPT ![w].shot = shot, ![w].key = key,
                                         ![w].sleep = IF usable THEN DefaultSleep
                                                      ELSE ReducedSleep]
                   /\ pending_actions' =
                        IF usable THEN Queued(cached_plan_response) ELSE <<>>
                   /\ since_plan' = Seen(Captures)
                   /\ UNCHANGED plan_calls
    /\ UNCHANGED <<running, lock, thread, state, file, cached_plan_key,
                   cached_plan_response, cached_plan_consumed, last_logged, now,
                   cpc, cargs>>
    /\ UNCHANGED <<plannerVars, execVars, snapshots, action_log>>

\* The return of planner.plan() without the assignment on line 138: the result
\* is cached under the key of the plan before.
PlanReturnKeepsKey(w, response) ==
    /\ pc[w] = "planning"
    /\ cached_plan_response' = response
    /\ cached_plan_consumed' = FALSE
    /\ IF response # NoResponse /\ ParseRaises(response)
       THEN /\ pc' = [pc EXCEPT ![w] = "crashed"]
            /\ UNCHANGED <<pending_actions, loc>>
       ELSE /\ pc' = [pc EXCEPT ![w] = "execute"]
            /\ pending_actions' = pending_actions \o Queued(response)
            /\ loc' = [loc EXCEPT ![w].sleep = IF response = NoResponse
                                               THEN ReducedSleep ELSE DefaultSleep]
    /\ UNCHANGED <<running, lock, thread, state, file, last_screenshot,
                   last_vision_time, cached_plan_key, last_logged, now, cpc, cargs>>
    /\ UNCHANGED <<plan_calls, plannerVars, execVars, snapshots, since_plan, action_log>>

\* Lines 133-148: planner.plan() returns; the result is cached under the
\* fingerprint, parsed, filtered and queued.
PlanReturn(w, response) ==
    /\ pc[w] = "planning"
    /\ cached_plan_key' = loc[w].key
    /\ cached_plan_response' = response
    /\ cached_plan_consumed' = FALSE
    /\ IF response # NoResponse /\ ParseRaises(response)
       THEN /\ pc' = [pc EXCEPT ![w] = "crashed"]
            /\ UNCHANGED <<pending_actions, loc>>
       ELSE /\ pc' = [pc EXCEPT ![w] = "execute"]
            /\ pending_actions' = pending_actions \o Queued(response)
            /\ loc' = [loc EXCEPT ![w].sleep = IF response = NoResponse
                                               THEN ReducedSleep ELSE DefaultSleep]
    /\ UNCHANGED <<running, lock, thread, state, file, last_screenshot,
                   last_vision_time, last_logged, now, cpc, cargs>>
    /\ UNCHANGED <<plan_calls, plannerVars, execVars, snapshots, since_plan, action_log>>

\* ActionExecutor.execute: the steps it runs (its own confidence filter).
Executed(actions) == FilterSteps(actions, MIN_CONFIDENCE)

\* time.sleep(step.wait_seconds) raises ValueError for a negative length.
ExecuteRaises(actions) ==
    \E i \in 1..Len(actions) : actions[i].action = "WAIT" /\ actions[i].wait_seconds < 0

\* adapter.screen_size(): the size NullAdapter is built with.
AdapterSize == <<1280, 720>>

\* int(n / d): Python's int() drops the fraction, towards zero.
Trunc(n, d) == IF n >= 0 THEN n \div d ELSE -((-n) \div d)

\* ActionExecutor._resolve_coords; the target is counted in hundredths.
resolve_coords(target, screenshot_size) ==
    LET size == IF screenshot_size # <<>> THEN screenshot_size ELSE AdapterSize
    IN  <<Trunc(target[1] * size[1], 100), Trunc(target[2] * size[2], 100)>>

\* The size execute() works with: that of the screenshot it is given, kept in
\* last_capture_size, or the size kept from an earlier call.
CaptureSize(screenshot, kept) ==
    IF screenshot # NoShot THEN <<screenshot.width, screenshot.height>> ELSE kept

\* ActionExecutor._execute_step: where the adapter's pointer is after the
\* step.  MOVE, CLICK, DOUBLE_CLICK and DRAG act on a step with a target;
\* every other kind, known or not, leaves the pointer alone.
execute_step(step, screenshot_size, at) ==
    IF step.action \in {"MOVE", "CLICK", "DOUBLE_CLICK", "DRAG"} /\ step.target # <<>>
    THEN resolve_coords(step.target, screenshot_size)
    ELSE at

\* One call of an adapter primitive.
AdapterCall(op, args) == [op |-> op, args |-> args]

\* int(step.scroll.get(k, 0)) if step.scroll else 0, the amount in tenths.
ScrollAmount(scroll, k) ==
    IF scroll = <<>> THEN 0 ELSE Trunc(FloatOf(scroll[k]), 10)

\* _execute_step that looks at the kind of the step alone.
adapter_calls_unguarded(step, screenshot_size) ==
    LET target_coords == IF step.target # <<>>
                         THEN resolve_coords(step.target, screenshot_size)
                         ELSE <<0, 0>>
    IN  IF step.action = "MOVE" THEN <<AdapterCall("move", target_coords)>>
        ELSE IF step.action = "CLICK"
        THEN <<AdapterCall("click", <<target_coords, 1>>)>>
        ELSE IF step.action = "DOUBLE_CLICK"
        THEN <<AdapterCall("click", <<target_coords, 2>>)>>
        ELSE IF step.action = "DRAG"
        THEN <<AdapterCall("drag", <<<<AdapterSize[1] \div 2, AdapterSize[2] \div 2>>,
                                     target_coords>>)>>
        ELSE IF step.action = "SCROLL"
        THEN <<AdapterCall("scroll", <<ScrollAmount(step.scroll, 1),
                                       ScrollAmount(step.scroll, 2)>>)>>
        ELSE IF step.action = "TYPE" THEN <<AdapterCall("type_text", <<step.text>>)>>
        ELSE IF step.action = "KEYPRESS"
        THEN <<AdapterCall("keypress", <<step.keys, step.repeat, step.hold_ms>>)>>
        ELSE <<>>

\* ActionExecutor._execute_step: the calls the adapter receives for the step,
\* in order.  An ActionTarget and a pair of coordinates are always truthy.
adapter_calls(step, screenshot_size) ==
    LET target_coords == IF step.target # <<>>
                         THEN resolve_coords(step.target, screenshot_size)
                         ELSE <<>>
    IN  IF step.action = "MOVE" /\ target_coords # <<>>
        THEN <<AdapterCall("move", target_coords)>>
        ELSE IF step.action = "CLICK" /\ target_coords # <<>>
        THEN <<AdapterCall("click", <<target_coords, 1>>)>>
        ELSE IF step.action = "DOUBLE_CLICK" /\ target_coords # <<>>
        THEN <<AdapterCall("click", <<target_coords, 2>>)>>
        ELSE IF step.action = "DRAG" /\ step.target # <<>>
        THEN <<AdapterCall("drag", <<<<AdapterSize[1] \div 2, AdapterSize[2] \div 2>>,
                                     target_coords>>)>>
        ELSE IF step.action = "SCROLL"
        THEN <<AdapterCall("scroll", <<ScrollAmount(step.scroll, 1),
                                       ScrollAmount(step.scroll, 2)>>)>>
        ELSE IF step.action = "TYPE" /\ ~Falsy(step.text)
        THEN <<AdapterCall("type_text", <<step.text>>)>>
        ELSE IF step.action = "KEYPRESS" /\ step.keys # <<>>
        THEN <<AdapterCall("keypress", <<step.keys, step.repeat, step.hold_ms>>)>>
        ELSE <<>>

\* The pointer after the steps execute() runs, in order.
RECURSIVE PointerAfter(_, _, _)
PointerAfter(actions, screenshot_size, at) ==
    IF actions = <<>> THEN at
    ELSE PointerAfter(Tail(actions), screenshot_size,
                      execute_step(Head(actions), screenshot_size, at))

\* The for loop of execute() from the clock value t on: every step is run to
\* its end, a WAIT's sleep included, before the next one begins.
RECURSIVE Dispatch(_, _, _)
Dispatch(actions, screenshot_size, t) ==
    IF actions = <<>> THEN <<>>
    ELSE LET step == Head(actions)
             took == IF step.action = "WAIT" THEN step.wait_seconds ELSE 0
         IN  <<[step |-> step, start |-> t, stop |-> t + took,
                calls |-> adapter_calls(step, screenshot_size)]>>
                 \o Dispatch(Tail(actions), screenshot_size, t + took)

\* The steps run before the first one that raises.
RECURSIVE BeforeRaise(_)
BeforeRaise(actions) ==
    IF actions = <<>> \/ ExecuteRaises(<<Head(actions)>>) THEN <<>>
    ELSE <<Head(actions)>> \o BeforeRaise(Tail(actions))

RECURSIVE WaitTotal(_)
WaitTotal(steps) ==
    IF steps = <<>> THEN 0
    ELSE (IF Head(steps).action = "WAIT" THEN Head(steps).wait_seconds ELSE 0)
         + WaitTotal(Tail(steps))

\* Lines 150-154: drain the queue and run the batch; a WAIT step blocks for
\* its wait_seconds.
Execute(w) ==
    /\ pc[w] = "execute"
    /\ since_plan' = [since_plan EXCEPT
                         !.batches = IF pending_actions = <<>> THEN @ ELSE @ + 1]
    /\ IF pending_actions = <<>>
       THEN /\ pc' = [pc EXCEPT ![w] = "finish"]
            /\ UNCHANGED <<pending_actions, loc, now, last_capture_size, pointer,
                           dispatched>>
       ELSE IF ExecuteRaises(Executed(pending_actions))
       THEN /\ pc' = [pc EXCEPT ![w] = "crashed"]
            /\ pending_actions' = <<>>
            /\ last_capture_size' = CaptureSize(loc[w].shot, last_capture_size)
            /\ dispatched' = Dispatch(BeforeRaise(Executed(pending_actions)),
                                   last_capture_size', 0)
            /\ pointer' = PointerAfter(BeforeRaise(Executed(pending_actions)),
                                       last_capture_size', pointer)
            /\ UNCHANGED <<loc, now>>
       ELSE /\ pc' = [pc EXCEPT ![w] = "record"]
            /\ pending_actions' = <<>>
            /\ last_capture_size' = CaptureSize(loc[w].shot, last_capture_size)
            /\ dispatched' = Dispatch(Executed(pending_actions),
                                   last_capture_size', 0)
            /\ pointer' = PointerAfter(Executed(pending_actions),
                                       last_capture_size', pointer)
            /\ loc' = [loc EXCEPT
                         ![w].run = pending_actions,
                         ![w].sums = [i \in 1..Len(Executed(pending_actions)) |->
                                        summary(Executed(pending_actions)[i])]]
            /\ now' = now + WaitTotal(Executed(pending_actions))
    /\ UNCHANGED <<running, lock, thread, state, file, last_screenshot,
                   last_vision_time, cached_plan_key, cached_plan_response,
                   cached_plan_consumed, last_logged, cpc, cargs>>
    /\ UNCHANGED <<plan_calls, plannerVars, actions_to_run, summaries, snapshots, action_log>>

\* Lines 158-161 for the summaries of a batch, in order: log_action unless the
\* pair repeats last_logged.  journal is [log, last]: the log file and
\* last_logged.
RECURSIVE LogAllAlways(_, _, _)
LogAllAlways(journal, sums, key) ==
    IF sums = <<>> THEN journal
    ELSE LogAllAlways([log |-> Append(journal.log, <<Head(sums), key>>),
                       last |-> <<Head(sums), key>>], Tail(sums), key)

RECURSIVE LogAll(_, _, _)
LogAll(journal, sums, key) ==
    IF sums = <<>> THEN journal
    ELSE LogAll(IF journal.last = <<>> \/ journal.last # <<Head(sums), key>>
                THEN [log |-> Append(journal.log, <<Head(sums), key>>),
                      last |-> <<Head(sums), key>>]
                ELSE journal,
                Tail(sums), key)

\* Lines 156-167: fold every summary into the state (each update saves), log
\* it unless it repeats the last logged pair, mark the plan consumed and
\* clear the capture marker.
Record(w) ==
    /\ pc[w] = "record"
    /\ state' = UpdateAll(state, loc[w].sums, now)
    /\ file' = IF loc[w].sums = <<>> THEN file ELSE Saved(state')
    /\ LET journal == LogAll([log |-> action_log, last |-> last_logged],
                             loc[w].sums, cached_plan_key)
       IN  last_logged' = journal.last /\ action_log' = journal.log
    /\ loc' = [loc EXCEPT ![w].sleep =
                 IF loc[w].run[Len(loc[w].run)].action = "WAIT" THEN ShortSleep
                 ELSE loc[w].sleep]
    /\ cached_plan_consumed' = TRUE
    /\ last_vision_time' = 0
    /\ pc' = [pc EXCEPT ![w] = "finish"]
    /\ UNCHANGED <<running, lock, thread, last_screenshot, pending_actions,
                   cached_plan_key, cached_plan_response, now, cpc, cargs>>
    /\ UNCHANGED <<plan_calls, plannerVars, execVars, snapshots, since_plan>>

\* Lines 169-170: stimulate_emotions(0.02), then save() as far as
\* json.dumps(self.state.to_dict()): the text it is going to write.
Finish(w) ==
    /\ pc[w] = "finish"
    /\ state' = [state EXCEPT
                    !.emotion_vector = stimulate_emotions(state.emotion_vector, TickStimulus)]
    /\ loc' = [loc EXCEPT ![w].dump = Saved(state')]
    /\ pc' = [pc EXCEPT ![w] = "persist"]
    /\ UNCHANGED <<running, lock, thread, file, last_screenshot,
                   last_vision_time, pending_actions, cached_plan_key,
                   cached_plan_response, cached_plan_consumed, last_logged, now,
                   cpc, cargs>>
    /\ UNCHANGED <<plan_calls, plannerVars, execVars, snapshots, since_plan, action_log>>

\* The end of the tick with time.sleep(0.5) whatever the tick did.
PersistSleepsDefault(w) ==
    /\ pc[w] = "persist"
    /\ file' = loc[w].dump
    /\ snapshots' = Append(snapshots, SnapshotName(now))
    /\ now' = now + DefaultSleep
    /\ loc' = [loc EXCEPT ![w] = InitLoc]
    /\ pc' = [pc EXCEPT ![w] = "top"]
    /\ UNCHANGED <<running, lock, thread, state, last_screenshot,
                   last_vision_time, pending_actions, cached_plan_key,
                   cached_plan_response, cached_plan_consumed, last_logged, cpc,
                   cargs>>
    /\ UNCHANGED <<plan_calls, plannerVars, execVars, since_plan, action_log>>

\* Lines 170-172: save()'s write_text of that text, snapshot_state, then
\* time.sleep(sleep_after_loop).
Persist(w) ==
    /\ pc[w] = "persist"
    /\ file' = loc[w].dump
    /\ snapshots' = Append(snapshots, SnapshotName(now))
    /\ now' = now + loc[w].sleep
    /\ loc' = [loc EXCEPT ![w] = InitLoc]
    /\ pc' = [pc EXCEPT ![w] = "top"]
    /\ UNCHANGED <<running, lock, thread, state, last_screenshot,
                   last_vision_time, pending_actions, cached_plan_key,
                   cached_plan_response, cached_plan_consumed, last_logged, cpc,
                   cargs>>
    /\ UNCHANGED <<plan_calls, plannerVars, execVars, since_plan, action_log>>

----------------------------------------------------------------------------
(* The inputs: what the caller asks for, what the screen shows, what the   *)
(* planner answers and what the local time of day is.                      *)

ClickStep(confidence) ==
    RawStep(JStr("CLICK"), JNum(confidence), JMissing, <<50, 50>>, "")

WaitStep(confidence, wait_seconds) ==
    RawStep(JStr("WAIT"), JNum(confidence), JNum(wait_seconds), <<>>, "")

PlanClick == Response("object", <<ClickStep(90)>>)
PlanLow == Response("object", <<ClickStep(54)>>)
PlanEmpty == Response("object", <<>>)
PlanClickWait == Response("object", <<ClickStep(90), WaitStep(0, 0)>>)
PlanArray == Response("array", <<>>)
PlanBadConfidence ==
    Response("object", <<RawStep(JStr("CLICK"), JStr("high"), JMissing, <<50, 50>>, "")>>)
PlanNegativeWait == Response("object", <<WaitStep(90, -10)>>)

Screens == {Shot("a"), Shot("b")}

TimesOfDay == {300, 540, 720, 1020, 1200}

----------------------------------------------------------------------------
(* The program: one calling thread and the workers start() has spawned.    *)

Worker(w, horizon, responses, screens) ==
    \/ LoopTop(w, horizon)
    \/ \E tod \in TimesOfDay : WindowCheck(w, tod)
    \/ Reflect(w)
    \/ \E shot \in screens : Observe(w, shot)
    \/ \E response \in responses : PlanReturn(w, response)
    \/ Execute(w)
    \/ Record(w)
    \/ Finish(w)
    \/ Persist(w)

CallerProgress ==
    \/ StartSetGoal
    \/ StartSetWindow
    \/ StartSpawn
    \/ StopMark
    \/ StopJoin

\* The inputs of the concurrent model.
SomeRequests ==
    {Args("GOAL", "g1", PyNone, PyNone),
     Args("FREEROAM", "g2", "09:00", "17:00")}

SomeResponses ==
    {PlanClick, PlanArray, Fallback("Planner returned empty response.")}

SomeScreens == {Shot("a")}

\* start, stop and config may be called at any time.
Next ==
    \/ \E a \in SomeRequests : StartEnter(a)
    \/ StopEnter(MaxTime)
    \/ \E a \in SomeRequests : Config(a)
    \/ CallerProgress
    \/ \E w \in Workers : Worker(w, MaxTime, SomeResponses, SomeScreens)

Spec == Init /\ [][Next]_vars

\* The caller waits for the worker to end before it calls start again, so at
\* most one worker exists at a time.
SeqRequests ==
    {Args("GOAL", "g1", PyNone, PyNone),
     Args("GOAL", "g2", PyNone, PyNone),
     Args("GOAL", "g1", "09:00", "17:00")}

SeqResponses == {PlanClick, PlanLow, NoResponse}

NextSeq ==
    \/ \E a \in SeqRequests : (\A w \in Workers : Terminated(w)) /\ StartEnter(a)
    \/ StopEnter(MaxTimeSeq)
    \/ \E a \in SeqRequests : Config(a)
    \/ CallerProgress
    \/ \E w \in Workers : Worker(w, MaxTimeSeq, SeqResponses, Screens)

SpecSeq == Init /\ [][NextSeq]_vars

\* The inputs of the model with fair scheduling.
FairRequests == {Args("FREEROAM", "g2", "09:00", "17:00")}

FairResponses == {PlanClick, PlanArray}

NextFair ==
    \/ \E a \in FairRequests : StartEnter(a)
    \/ StopEnter(MaxTime)
    \/ \E a \in FairRequests : Config(a)
    \/ CallerProgress
    \/ \E w \in Workers : Worker(w, MaxTime, FairResponses, SomeScreens)

\* The scheduler lets every thread that can take a step take one: a call in
\* progress (start, stop, join) runs to its end, and a worker waiting for the
\* lock at the top of its loop gets it when the caller keeps releasing it.
SpecFair ==
    /\ Init
    /\ [][NextFair]_vars
    /\ WF_vars(CallerProgress)
    /\ \A w \in Workers : SF_vars(Worker(w, MaxTime, FairResponses, SomeScreens))

----------------------------------------------------------------------------
(* One worker over plans of every shape: steps of low and of unknown       *)
(* confidence, of unknown kind, with fields out of range.                  *)

KeyStep(repeat, hold_ms) ==
    [action |-> JStr("KEYPRESS"), confidence |-> JNum(90), wait_seconds |-> JMissing,
     target |-> <<>>, rationale |-> "", repeat |-> repeat, hold_ms |-> hold_ms]

PlanMixed == Response("object", <<ClickStep(54), WaitStep(0, 0), ClickStep(90)>>)
PlanUnknown ==
    Response("object", <<RawStep(JStr("JUMP"), JNum(90), JMissing, <<50, 50>>, "")>>)
PlanKeysOver == Response("object", <<KeyStep(JNum(11), JNum(2500))>>)
PlanRepeat ==
    Response("object", <<ClickStep(90), ClickStep(90), WaitStep(0, 0), ClickStep(90)>>)

TickRequests ==
    {Args("GOAL", "g1", PyNone, PyNone), Args("GOAL", "g1", "09:00", "17:00")}

\* A WAIT at 0.0; a CLICK at 0.54, at 0.55 and at NaN; a plan that mixes them;
\* a step of unknown kind and one of no kind; a WAIT of 100 s; a CLICK at
\* confidence 1.5 outside the screen; key presses with repeat and hold_ms
\* over, under, not numbers, within range and missing; a CLICK followed by a
\* WAIT; the same CLICK twice, a WAIT and that CLICK again; no plan at all.
TickResponses ==
    {Response("object", <<WaitStep(0, 0)>>),
     PlanLow,
     PlanRepeat,
     Response("object", <<ClickStep(55)>>),
     Response("object", <<RawStep(JStr("CLICK"), JNaN, JMissing, <<50, 50>>, "")>>),
     PlanMixed,
     PlanUnknown,
     Response("object", <<RawStep(JMissing, JNum(0), JMissing, <<>>, "")>>),
     Response("object", <<WaitStep(90, 1000)>>),
     Response("object", <<RawStep(JStr("CLICK"), JNum(150), JMissing, <<150, -20>>, "")>>),
     PlanKeysOver,
     Response("object", <<KeyStep(JNum(0), JNum(-5))>>),
     Response("object", <<KeyStep(JStr("many"), JStr("long"))>>),
     Response("object", <<KeyStep(JNum(3), JNum(100)), KeyStep(JMissing, JMissing)>>),
     PlanClickWait,
     NoResponse}

NextTick ==
    \/ \E a \in TickRequests : (\A w \in Workers : Terminated(w)) /\ StartEnter(a)
    \/ StopEnter(MaxTimeTick)
    \/ \E a \in TickRequests : Config(a)
    \/ CallerProgress
    \/ \E w \in Workers : Worker(w, MaxTimeTick, TickResponses, SomeScreens)

SpecTick == Init /\ [][NextTick]_vars

----------------------------------------------------------------------------
(* One worker and the activity window: no bound, one bound, an empty       *)
(* bound, a window within the day, one that would run past midnight, and a *)
(* bound that is no time of day.                                           *)

WindowRequests ==
    {Args("GOAL", "g1", PyNone, PyNone),
     Args("GOAL", "g1", "09:00", PyNone),
     Args("GOAL", "g1", PyNone, "17:00"),
     Args("GOAL", "g1", "", "17:00"),
     Args("GOAL", "g1", "09:00", "17:00"),
     Args("GOAL", "g1", "17:00", "09:00"),
     Args("GOAL", "g1", "9am", "17:00")}

NextWindow ==
    \/ \E a \in WindowRequests : (\A w \in Workers : Terminated(w)) /\ StartEnter(a)
    \/ StopEnter(MaxTimeWindow)
    \/ CallerProgress
    \/ \E w \in Workers : Worker(w, MaxTimeWindow, {PlanClick}, SomeScreens)

SpecWindow == Init /\ [][NextWindow]_vars

----------------------------------------------------------------------------
(* One worker that is started once and never stopped, long enough for the   *)
(* capture interval to go by: plans with a step to run, with none, and no   *)
(* plan at all.                                                             *)

NextCapture ==
    \/ \E a \in TickRequests : thread = 0 /\ StartEnter(a)
    \/ StartSetGoal
    \/ StartSetWindow
    \/ StartSpawn
    \/ \E w \in Workers :
          Worker(w, MaxTimeWindow, {PlanClick, PlanLow, PlanEmpty, NoResponse}, Screens)

SpecCapture == Init /\ [][NextCapture]_vars

----------------------------------------------------------------------------
(* One worker that is started once and never stopped while api_config may  *)
(* give the agent another goal and then an activity window: plans with a   *)
(* step to run and with none.                                              *)

ReplanRequests == {Args("GOAL", "g1", PyNone, PyNone)}

\* api_config is called at most twice: with another goal, then with a window.
NewGoal == Args("GOAL", "g2", PyNone, PyNone)
NewWindow == Args("GOAL", "g3", "09:00", "17:00")

\* A time of day before 09:00: outside the window from 09:00 to 17:00.
NightTime == CHOOSE tod \in TimesOfDay : tod < HM("09:00")

NextReplan ==
    \/ \E a \in ReplanRequests : thread = 0 /\ StartEnter(a)
    \/ state.current_goal = "g1" /\ Config(NewGoal)
    \/ state.current_goal = "g2" /\ Config(NewWindow)
    \/ StartSetGoal
    \/ StartSetWindow
    \/ StartSpawn
    \/ \E w \in Workers :
          \/ LoopTop(w, MaxTimeWindow)
          \/ WindowCheck(w, NightTime)
          \/ Reflect(w)
          \/ Observe(w, Shot("a"))
          \/ \E response \in {PlanClick, PlanLow} : PlanReturn(w, response)
          \/ Execute(w)
          \/ Record(w)
          \/ Finish(w)
          \/ Persist(w)

SpecReplan == Init /\ [][NextReplan]_vars

----------------------------------------------------------------------------
(* The state store by itself: StateManager(path) loads whatever file is    *)
(* there, then the affect of the state it loaded decays and is stimulated. *)

\* The latest time at which the affect is decayed or stimulated.
MaxTimeState == 3

\* A file that json.loads rejects.
Garbage == [text |-> "{"]

\* A JSON document that is no object: [] and null.
JArray == [array |-> <<>>]
JNull == [null |-> TRUE]

\* The state files: none; one save() wrote; garbage; [] and null; {}; objects
\* that hold some of the fields; objects whose emotion_vector is two fives, is
\* of four components, out of range or NaN, or is empty.
StateFiles ==
    {<<>>,
     Saved([DefaultState EXCEPT !.agent_status = "ACTIVE", !.last_action_time = 7,
                                !.current_goal = "g1",
                                !.active_window_start = "09:00",
                                !.active_window_stop = "17:00"]),
     <<Garbage>>, <<JArray>>, <<JNull>>,
     <<[x \in {} |-> 0]>>,
     <<[agent_status |-> "SLEEPING", current_mode |-> "FREEROAM"]>>,
     <<[current_goal |-> "g2", last_action |-> "WAIT (0.50)", last_action_time |-> 5]>>,
     <<[emotion_vector |-> <<50000, 50000>>]>>,
     <<[emotion_vector |-> <<-3000, NaN, 12000, 5000>>]>>,
     <<[emotion_vector |-> <<>>, agent_status |-> "ACTIVE"]>>}

\* There is no AgentState before StateManager.__init__ has returned.
NoState == [unloaded |-> TRUE]

\* json.loads raises JSONDecodeError
LoadsRaises(data) == "text" \in DOMAIN data

\* data.get raises AttributeError: lists and None have no get
GetRaises(data) == "array" \in DOMAIN data \/ "null" \in DOMAIN data

\* StateManager._load raises: it catches JSONDecodeError and nothing else.
LoadRaises(f) == f # <<>> /\ ~LoadsRaises(f[1]) /\ GetRaises(f[1])

\* StateManager._load, when it returns and the clock reads t
load(f, t) ==
    LET defaults == [DefaultState EXCEPT !.session_start_time = t]
    IN  IF f = <<>> THEN defaults
        ELSE IF LoadsRaises(f[1]) THEN defaults
        ELSE [field \in DOMAIN defaults |->
                 IF field \in DOMAIN f[1] THEN f[1][field] ELSE defaults[field]]

InitState ==
    /\ InitLoop
    /\ InitPlanner
    /\ state = NoState
    /\ file \in StateFiles
    /\ cpc = "construct"
    /\ now = 1

\* StateManager.__init__: self.state = self._load()
Construct ==
    /\ cpc = "construct"
    /\ IF LoadRaises(file)
       THEN cpc' = "failed" /\ state' = state
       ELSE cpc' = "idle" /\ state' = load(file, now)
    /\ UNCHANGED <<running, lock, thread, file, last_screenshot, last_vision_time,
                   pending_actions, cached_plan_key, cached_plan_response,
                   cached_plan_consumed, last_logged, now, pc, loc, cargs>>
    /\ UNCHANGED <<plan_calls, plannerVars, execVars, snapshots, since_plan, action_log>>

\* AgentState.decay_emotions(decay) on the state that was loaded
DecayEmotions(decay) ==
    /\ cpc = "idle"
    /\ now <= MaxTimeState
    /\ state' = [state EXCEPT !.emotion_vector = decay_emotions(state.emotion_vector, decay)]
    /\ now' = now + 1
    /\ UNCHANGED <<running, lock, thread, file, last_screenshot, last_vision_time,
                   pending_actions, cached_plan_key, cached_plan_response,
                   cached_plan_consumed, last_logged, pc, loc, cpc, cargs>>
    /\ UNCHANGED <<plan_calls, plannerVars, execVars, snapshots, since_plan, action_log>>

\* AgentState.stimulate_emotions(delta) on the state that was loaded
StimulateEmotions(delta) ==
    /\ cpc = "idle"
    /\ now <= MaxTimeState
    /\ state' = [state EXCEPT !.emotion_vector = stimulate_emotions(state.emotion_vector, delta)]
    /\ now' = now + 1
    /\ UNCHANGED <<running, lock, thread, file, last_screenshot, last_vision_time,
                   pending_actions, cached_plan_key, cached_plan_response,
                   cached_plan_consumed, last_logged, pc, loc, cpc, cargs>>
    /\ UNCHANGED <<plan_calls, plannerVars, execVars, snapshots, since_plan, action_log>>

\* Rates of decay, in hundredths: negative, 0, the default, 0.5, 1, over 1, NaN.
Decays == {-50, 0, DefaultDecay, 50, 100, 150, NaN}

\* Stimuli, in ten-thousandths: negative, 0, the tick's, 0.3, over 1, NaN.
Deltas == {-3000, 0, TickStimulus, 3000, 20000, NaN}

NextState ==
    \/ Construct
    \/ \E decay \in Decays : DecayEmotions(decay)
    \/ \E delta \in Deltas : StimulateEmotions(delta)

SpecState == InitState /\ [][NextState]_vars

----------------------------------------------------------------------------
(* The executor on its own: parse_actions builds the steps of a response   *)
(* and ActionExecutor.execute runs them, with or without a screenshot.     *)

\* actions = parse_actions(response, min_confidence)
ParseActions(response, min_confidence) ==
    /\ ~ParseRaises(response)
    /\ actions_to_run' = parse_actions(response, min_confidence)
    /\ UNCHANGED <<last_capture_size, pointer, summaries, dispatched, now>>
    /\ UNCHANGED <<loopVars, plannerVars>>

\* execute() that forgets the size of the screenshot it is given.
ExecutorExecuteForgets(screenshot, horizon) ==
    /\ now <= horizon
    /\ UNCHANGED last_capture_size
    /\ IF ExecuteRaises(Executed(actions_to_run))
       THEN /\ pointer' = PointerAfter(BeforeRaise(Executed(actions_to_run)),
                                       last_capture_size', pointer)
            /\ dispatched' = Dispatch(BeforeRaise(Executed(actions_to_run)),
                                   last_capture_size', 0)
            /\ UNCHANGED <<summaries, now>>
       ELSE /\ pointer' = PointerAfter(Executed(actions_to_run), last_capture_size',
                                       pointer)
            /\ dispatched' = Dispatch(Executed(actions_to_run),
                                   last_capture_size', 0)
            /\ summaries' = [i \in 1..Len(Executed(actions_to_run)) |->
                               summary(Executed(actions_to_run)[i])]
            /\ now' = now + WaitTotal(Executed(actions_to_run))
    /\ UNCHANGED actions_to_run
    /\ UNCHANGED <<loopVars, plannerVars>>

\* summaries = executor.execute(actions, screenshot)
ExecutorExecute(screenshot, horizon) ==
    /\ now <= horizon
    /\ last_capture_size' = CaptureSize(screenshot, last_capture_size)
    /\ IF ExecuteRaises(Executed(actions_to_run))
       THEN /\ pointer' = PointerAfter(BeforeRaise(Executed(actions_to_run)),
                                       last_capture_size', pointer)
            /\ dispatched' = Dispatch(BeforeRaise(Executed(actions_to_run)),
                                   last_capture_size', 0)
            /\ UNCHANGED <<summaries, now>>
       ELSE /\ pointer' = PointerAfter(Executed(actions_to_run), last_capture_size',
                                       pointer)
            /\ dispatched' = Dispatch(Executed(actions_to_run),
                                   last_capture_size', 0)
            /\ summaries' = [i \in 1..Len(Executed(actions_to_run)) |->
                               summary(Executed(actions_to_run)[i])]
            /\ now' = now + WaitTotal(Executed(actions_to_run))
    /\ UNCHANGED actions_to_run
    /\ UNCHANGED <<loopVars, plannerVars>>

\* No screenshot, one of 1000 x 800 and one of 640 x 480.
ExecScreens == {NoShot, Shot("a"), [image |-> "s", width |-> 640, height |-> 480]}

TargetStep(action, x, y) == RawStep(JStr(action), JNum(90), JMissing, <<x, y>>, "")

\* A step without a target that may carry text, keys and scroll amounts; its
\* repeat is 2 and its hold_ms 100.
OperandStep(action, text, keys, scroll) ==
    [action |-> JStr(action), confidence |-> JNum(90), wait_seconds |-> JMissing,
     target |-> <<>>, rationale |-> "", text |-> text, keys |-> keys,
     scroll |-> scroll, repeat |-> JNum(2), hold_ms |-> JNum(100)]

BareStep(action) == OperandStep(action, JMissing, JMissing, JMissing)

\* Every kind without its operand; TYPE with "" and KEYPRESS with [].
PlanBare ==
    Response("object", <<BareStep("MOVE"), BareStep("CLICK"), BareStep("DOUBLE_CLICK"),
                         BareStep("DRAG"), BareStep("SCROLL"), BareStep("TYPE"),
                         BareStep("KEYPRESS"), BareStep("FOCUS_WINDOW"),
                         OperandStep("TYPE", JStr(""), JMissing, JMissing),
                         OperandStep("KEYPRESS", JMissing, JList(<<>>), JMissing)>>)

\* A CLICK without a target and a DRAG with one, TYPE "hi", ctrl+c, a scroll
\* by (2.5, -1.5), one by dx 3.0 alone and a CLICK that carries text and keys
\* besides its target.
PlanOperands ==
    Response("object", <<BareStep("CLICK"),
                         [BareStep("DRAG") EXCEPT !.target = <<29, 1>>],
                         OperandStep("TYPE", JStr("hi"), JMissing, JMissing),
                         OperandStep("KEYPRESS", JMissing, JList(<<"ctrl", "c">>),
                                     JMissing),
                         OperandStep("SCROLL", JMissing, JMissing,
                                     JScroll(JNum(25), JNum(-15))),
                         OperandStep("SCROLL", JMissing, JMissing,
                                     JScroll(JNum(30), JMissing)),
                         [OperandStep("CLICK", JStr("hi"), JList(<<"ctrl">>), JMissing)
                            EXCEPT !.target = <<50, 50>>]>>)

ExecResponses ==
    {PlanBare, PlanOperands,
     Response("object", <<TargetStep("CLICK", 50, 50)>>),
     Response("object", <<TargetStep("MOVE", 0, 100)>>),
     Response("object", <<TargetStep("DOUBLE_CLICK", 33, 99)>>),
     Response("object", <<TargetStep("DRAG", 29, 1), WaitStep(0, 1)>>),
     Response("object", <<TargetStep("CLICK", -1, 150)>>),
     Response("object", <<TargetStep("CLICK", 10, 10), WaitStep(0, 2),
                          TargetStep("MOVE", 20, 20), ClickStep(54), WaitStep(90, 1),
                          TargetStep("CLICK", 10, 10)>>),
     PlanLow, PlanNegativeWait}

NextExecutor ==
    \/ \E response \in ExecResponses, min_confidence \in {0, MIN_CONFIDENCE} :
          ParseActions(response, min_confidence)
    \/ \E screenshot \in ExecScreens : ExecutorExecute(screenshot, MaxTimeExec)

SpecExecutor == Init /\ [][NextExecutor]_vars

----------------------------------------------------------------------------
(* start, stop and the worker.                                             *)

InTick(w) ==
    pc[w] \in {"window", "reflect", "observe", "planning", "execute", "record",
               "finish", "persist"}

\* C1: at any time at most one worker thread is inside a tick of the loop,
\* whatever the interleaving of start(), stop() and the worker.
C1_OneWorkerInLoop == Cardinality({w \in Workers : InTick(w)}) <= 1

\* C2: at any time at most one call of planner.plan() is in flight.
C2_OnePlanInFlight == Cardinality({w \in Workers : pc[w] = "planning"}) <= 1

\* C3: once stop() has marked the state STOPPED it stays STOPPED until start()
\* is called again: when stop() has returned and every worker has ended, the
\* status in memory and in the state file is STOPPED.
C3_StoppedAfterStop ==
    (/\ cargs.op = "stop"
     /\ cpc = "idle"
     /\ \A w \in Workers : Terminated(w))
    => (state.agent_status = "STOPPED" /\ file = Saved(state))

\* C4: after stop() has cleared the flag, no worker begins a new tick (at the
\* flag check it leaves the loop), and unless start() sets the flag again
\* every worker's loop ends.
C4_StopEndsLoop ==
    /\ [][\A w \in Workers :
            (pc[w] = "top" /\ ~running /\ pc'[w] # "top") => pc'[w] = "done"]_vars
    /\ (~running) ~> (running \/ \A w \in Workers : Terminated(w))

C4_Witness ==
    /\ ~running
    /\ cargs.op = "stop"
    /\ \E w \in Workers : pc[w] = "done"
    /\ \A w \in Workers : Terminated(w)

\* A call of start() takes its first step: it leaves "idle" with a start
\* request in hand.
StartStep ==
    /\ cpc = "idle"
    /\ cargs'.op = "start"
    /\ (cpc' = "set_goal" \/ cargs' # cargs)

\* C5: start() with the flag set changes nothing (goal, mode, window, status,
\* state file, worker threads); with the flag clear it ends with the goal,
\* mode and window of the request, status ACTIVE, the flag set and exactly
\* one more worker, at the top of its loop.
C5_StartNoOpWhenRunning ==
    [][/\ (StartStep /\ running) =>
            /\ cpc' = "idle"
            /\ UNCHANGED <<running, lock, thread, state, file, pc>>
       /\ (StartStep /\ ~running) => (cpc' = "set_goal" /\ lock' = "caller")
       /\ (cpc = "spawn" /\ cpc' # "spawn") =>
            /\ state'.current_goal = cargs.goal
            /\ state'.current_mode = cargs.mode
            /\ state'.active_window_start = cargs.active_start
            /\ state'.active_window_stop = cargs.active_stop
            /\ state'.agent_status = "ACTIVE"
            /\ file' = Saved(state')
            /\ running'
            /\ thread' = thread + 1
            /\ pc[thread'] = "unborn"
            /\ pc' = [pc EXCEPT ![thread'] = "top"]]_vars

\* The last call was start(), it has returned, the flag is set and the goal
\* is not the one it asked for: that call was the no-op.
C5_Witness ==
    /\ cpc = "idle"
    /\ cargs.op = "start"
    /\ running
    /\ state.current_goal # cargs.goal

\* C6: a worker's loop ends only by observing the flag cleared: no step ends
\* a worker while the flag is set.
C6_EndsOnlyByFlag ==
    [][\A w \in Workers : (Alive(w) /\ pc'[w] \in {"done", "crashed"}) => ~running]_vars

----------------------------------------------------------------------------
(* The plan cache.                                                         *)

\* A fingerprint without its perception marker: the observation key and the
\* goal, task and mode.
ContextContent(key) == <<key[1], key[3], key[4], key[5]>>

\* The fingerprint a worker at the capture step computes in this step.
TickKey == context_key(last_screenshot', last_vision_time', state)

PlansNow(w) == pc[w] = "observe" /\ pc'[w] = "planning"

\* C7: with a single worker, two ticks that compute the same fingerprint
\* cause at most one call of planner.plan(): no tick calls the planner for a
\* fingerprint it was already called for.
C7_OnePlanPerFingerprint ==
    [][\A w \in Workers : PlansNow(w) => TickKey \notin plan_calls]_vars

\* C8 as stated: a tick whose observation content and goal, task and mode are
\* those of the tick before (whose fingerprint is the cached key) does not
\* call the planner, whatever the perception marker.
C8_NoPlanOnSameContent ==
    [][\A w \in Workers :
         (PlansNow(w) /\ cached_plan_key # <<>>)
            => ContextContent(TickKey) # ContextContent(cached_plan_key)]_vars

\* C8 amended: a tick whose whole fingerprint, perception marker included, is
\* that of the tick before does not call the planner; a tick that follows an
\* executed batch (the marker was cleared) captures again and does call it.
C8_NoPlanOnSameFingerprint ==
    [][\A w \in Workers :
         /\ PlansNow(w) => TickKey # cached_plan_key
         /\ (/\ pc[w] = "observe" /\ pc'[w] # "observe"
             /\ pending_actions = <<>>
             /\ last_vision_time = 0) => pc'[w] = "planning"]_vars

\* A later tick found the fingerprint of the tick before and did not plan.
C8_Witness ==
    \E w \in Workers :
        /\ pc[w] = "execute"
        /\ loc[w].key = cached_plan_key
        /\ loc[w].key \in plan_calls
        /\ cached_plan_response # NoResponse
        /\ last_vision_time # 0
        /\ last_vision_time < now

\* C9: a tick with nothing pending takes exactly one of three outcomes.
\* (a) the fingerprint is the cached key and the cached plan is there and not
\* consumed: no planner call, the cache is untouched and the cached plan's
\* steps are queued; (b) the fingerprint differs: planner.plan() is called,
\* and when it returns its result is cached under the new key with the
\* consumed flag cleared; (c) the fingerprint is the cached key and the plan
\* is consumed or absent: no planner call, nothing queued, and the tick
\* sleeps 0.2 s.
C9_CacheOutcomes ==
    [][\A w \in Workers :
         LET hit == TickKey = cached_plan_key
             usable == cached_plan_response # NoResponse /\ ~cached_plan_consumed
             decides == /\ pc[w] = "observe" /\ pc'[w] # "observe"
                        /\ pending_actions = <<>>
             cacheKept == UNCHANGED <<cached_plan_key, cached_plan_response,
                                      cached_plan_consumed, plan_calls>>
         IN  /\ (decides /\ hit /\ usable) =>
                  /\ cacheKept
                  /\ IF ParseRaises(cached_plan_response)
                     THEN pc'[w] = "crashed"
                     ELSE /\ pc'[w] = "execute"
                          /\ pending_actions' =
                               parse_actions(cached_plan_response, MIN_CONFIDENCE)
             /\ (decides /\ ~hit) =>
                  /\ pc'[w] = "planning"
                  /\ loc'[w].key = TickKey
                  /\ plan_calls' = plan_calls \cup {TickKey}
                  /\ UNCHANGED <<cached_plan_key, cached_plan_response,
                                 cached_plan_consumed, pending_actions>>
             /\ (pc[w] = "planning" /\ pc'[w] # "planning") =>
                  /\ cached_plan_key' = loc[w].key
                  /\ ~cached_plan_consumed'
                  /\ plan_calls' = plan_calls
             /\ (decides /\ hit /\ ~usable) =>
                  /\ cacheKept
                  /\ pc'[w] = "execute"
                  /\ pending_actions' = <<>>
                  /\ loc'[w].sleep = ReducedSleep
             /\ (pc[w] = "execute" /\ pc'[w] # "execute" /\ pending_actions = <<>>) =>
                  (pc'[w] = "finish" /\ loc'[w] = loc[w])
             /\ (pc[w] = "persist" /\ pc'[w] = "top") => now' = now + loc[w].sleep]_vars

\* A later tick found the fingerprint of the tick before, with no plan
\* cached under it, and is about to sleep 0.2 s.
C9_Witness ==
    \E w \in Workers :
        /\ pc[w] = "finish"
        /\ loc[w].key = cached_plan_key
        /\ loc[w].key \in plan_calls
        /\ cached_plan_response = NoResponse
        /\ loc[w].sleep = ReducedSleep
        /\ last_vision_time # 0
        /\ last_vision_time < now

----------------------------------------------------------------------------
(* The planner port (agent/planners/*.py).  planner.plan() is called by    *)
(* the worker threads, and two of them can be alive at once, so calls of   *)
(* plan() on the one planner object may overlap.                           *)

\* An exception of a backend request: the status of a requests.HTTPError
\* (0 for any other exception), str(exc), and which of the words the
\* _backoff_seconds functions look for occur in str(exc).lower().
Exc(status, msg, words) == [status |-> status, msg |-> msg, words |-> words]

NoExc == Exc(0, "", {})

HTTP429 == Exc(429, "429 Client Error: Too Many Requests", {"429"})

HTTP500 == Exc(500, "500 Server Error: Internal Server Error", {})

HTTP404 == Exc(404, "404 Not Found", {"404"})

ReadTimeout == Exc(0, "Read timed out.", {})

QuotaExhausted == Exc(0, "429 Resource has been exhausted", {"429", "exhausted"})

Mentions(exc, words) == exc.words \cap words # {}

Min(a, b) == IF a < b THEN a ELSE b

Max(a, b) == IF a < b THEN b ELSE a

\* GeminiPlanner._backoff_seconds
gemini_backoff_seconds(exc) ==
    IF Mentions(exc, {"429", "rate", "exhausted"}) THEN 100 ELSE 50

\* HybridPlanner._backoff_seconds(exc, vision)
hybrid_backoff_seconds(exc, vision) ==
    IF exc.status = 429 \/ exc.status >= 500 THEN 100
    ELSE IF Mentions(exc, {"429", "rate", "limit"})
         THEN (IF vision THEN 100 ELSE 80)
         ELSE 50

\* LocalVLMPlanner._backoff_seconds, read after failure_count was incremented.
vlm_backoff_seconds(exc, count) ==
    LET scale == Min(count, 4)
    IN  IF exc.status = 429 \/ exc.status >= 500 \/ Mentions(exc, {"429", "rate", "limit"})
        THEN Min(50 * 2^scale, 600)
        ELSE Min(30 * 2^scale, 450)

\* The backoff of the text request of the backend in use.
backoff_seconds(b, exc, count) ==
    IF b = "vlm" THEN vlm_backoff_seconds(exc, count)
    ELSE IF b = "hybrid" THEN hybrid_backoff_seconds(exc, FALSE)
    ELSE gemini_backoff_seconds(exc)

\* The text of a backend's answer: what it holds once stripped ("object",
\* "array" and "null" are JSON texts, "garbage" is not JSON, "empty" is
\* nothing but white space) and whether prose precedes it.
Text(body, preamble) == [body |-> body, preamble |-> preamble]

NoText == Text("empty", FALSE)

\* json.loads of a JSON text.
Loads(body) ==
    IF body = "object" THEN PlanClick
    ELSE IF body = "array" THEN PlanArray
    ELSE NoResponse

\* <planner>._safe_json: Gemini's salvages the first {...} of a text that
\* does not parse; the other two give up.
safe_json(b, text) ==
    IF text.body = "empty" THEN Fallback("Planner returned empty response.")
    ELSE IF ~text.preamble /\ text.body # "garbage" THEN Loads(text.body)
    ELSE IF b = "gemini" /\ text.body = "object" THEN Loads(text.body)
    ELSE Fallback("Planner returned non-JSON response.")

\* f"{value:.1f}" of a value counted in tenths.
Fmt1(t) == ToString(t \div 10) \o "." \o ToString(t % 10)

\* The local rejection inside a backoff window.
RateLimited(wait_for) ==
    Fallback("Rate limited; retry after " \o Fmt1(wait_for) \o "s.")

\* The fallback of a failed text request.
Failed(b, exc) ==
    Fallback((IF b = "vlm" THEN "Local VLM planning failed: "
              ELSE IF b = "hybrid" THEN "Hybrid text planning failed: "
              ELSE "Gemini planning failed: ") \o exc.msg)

\* A response that is the single WAIT step of _fallback.
IsFallback(response) ==
    /\ response.kind = "object"
    /\ Len(response.actions) = 1
    /\ ActionOf(response.actions[1].action) = "WAIT"
    /\ response.actions[1].rationale # ""

\* An outcome of a backend request: it answers with a text or it raises.
Outcome(ok, text, exc) == [ok |-> ok, text |-> text, exc |-> exc]

InWindow == next_allowed_time # 0 /\ now < next_allowed_time

\* HybridPlanner._run_florence, lines 121-129: whether the vision request is
\* made for this observation.
AsksVision(key) ==
    /\ key # <<>>
    /\ last_scene_key # key
    /\ ~(next_vision_allowed_time # 0 /\ now < next_vision_allowed_time)

\* plan() up to its first backend request: the client test (Gemini), the
\* backoff window, the request lock (VLM), the scene cache (Hybrid).
PlanCall(w, key, horizon) ==
    /\ ppc[w] = "idle"
    /\ now <= horizon
    /\ pkey' = [pkey EXCEPT ![w] = key]
    /\ IF backend = "gemini" /\ ~client
       THEN /\ plan_result' = [plan_result EXCEPT ![w] = Fallback("GEMINI_API_KEY is not set.")]
            /\ ppc' = [ppc EXCEPT ![w] = "returned"]
            /\ UNCHANGED <<next_allowed_time, request_lock>>
       ELSE IF InWindow
       THEN /\ plan_result' = [plan_result EXCEPT ![w] = RateLimited(next_allowed_time - now)]
            /\ ppc' = [ppc EXCEPT ![w] = "returned"]
            /\ UNCHANGED <<next_allowed_time, request_lock>>
       ELSE IF backend = "vlm" /\ request_lock # 0
       THEN /\ next_allowed_time' = Max(next_allowed_time, now + 10)
            /\ plan_result' = [plan_result EXCEPT ![w] =
                                 Fallback("Planner busy; waiting for previous request to finish.")]
            /\ ppc' = [ppc EXCEPT ![w] = "returned"]
            /\ UNCHANGED request_lock
       ELSE /\ ppc' = [ppc EXCEPT ![w] =
                         IF backend = "hybrid" /\ AsksVision(key) THEN "vision"
                         ELSE "backend"]
            /\ request_lock' = IF backend = "vlm" THEN w ELSE request_lock
            /\ UNCHANGED <<next_allowed_time, plan_result>>
    /\ UNCHANGED <<backend, client, failure_count, next_vision_allowed_time,
                   last_scene_key, last_failure, now>>
    /\ UNCHANGED orchVars

\* HybridPlanner._run_florence, lines 144-159: the vision request returns or
\* raises; either way the text request follows.
VisionEnd(w, outcome) ==
    /\ ppc[w] = "vision"
    /\ IF outcome.ok
       THEN /\ next_vision_allowed_time' = 0
            /\ last_scene_key' = pkey[w]
       ELSE /\ next_vision_allowed_time' = now + hybrid_backoff_seconds(outcome.exc, TRUE)
            /\ UNCHANGED last_scene_key
    /\ ppc' = [ppc EXCEPT ![w] = "backend"]
    /\ UNCHANGED <<backend, client, next_allowed_time, failure_count, request_lock,
                   pkey, last_failure, plan_result, now>>
    /\ UNCHANGED orchVars

\* PlanEnd with a success that leaves the backoff timer and the failure count
\* as they were.
PlanEndKeepsBackoff(w, outcome) ==
    /\ ppc[w] \in {"backend", "fallback"}
    /\ IF outcome.ok
       THEN /\ plan_result' = [plan_result EXCEPT ![w] = safe_json(backend, outcome.text)]
            /\ last_failure' = [last_failure EXCEPT !.prev = 0, !.streak = 0]
            /\ UNCHANGED <<next_allowed_time, failure_count>>
       ELSE LET count == IF backend = "vlm" THEN failure_count + 1 ELSE failure_count
                d == backoff_seconds(backend, outcome.exc, count)
            IN  /\ failure_count' = count
                /\ next_allowed_time' = now + d
                /\ last_failure' = [at |-> now, backoff |-> d,
                                     prev |-> IF last_failure.streak > 0
                                              THEN last_failure.backoff ELSE 0,
                                     streak |-> last_failure.streak + 1]
                /\ plan_result' = [plan_result EXCEPT ![w] = Failed(backend, outcome.exc)]
    /\ request_lock' = IF backend = "vlm" THEN 0 ELSE request_lock
    /\ ppc' = [ppc EXCEPT ![w] = "returned"]
    /\ UNCHANGED <<backend, client, next_vision_allowed_time, last_scene_key, pkey,
                   now>>
    /\ UNCHANGED orchVars

\* The text request returns or raises: a success clears the backoff (and the
\* VLM's failure count) before the text is parsed; a failure counts (VLM),
\* arms the backoff and returns the fallback.  The VLM releases its lock.
PlanEnd(w, outcome) ==
    /\ ppc[w] \in {"backend", "fallback"}
    /\ IF outcome.ok
       THEN /\ next_allowed_time' = 0
            /\ failure_count' = IF backend = "vlm" THEN 0 ELSE failure_count
            /\ plan_result' = [plan_result EXCEPT ![w] = safe_json(backend, outcome.text)]
            /\ last_failure' = [last_failure EXCEPT !.prev = 0, !.streak = 0]
       ELSE LET count == IF backend = "vlm" THEN failure_count + 1 ELSE failure_count
                d == backoff_seconds(backend, outcome.exc, count)
            IN  /\ failure_count' = count
                /\ next_allowed_time' = now + d
                /\ last_failure' = [at |-> now, backoff |-> d,
                                     prev |-> IF last_failure.streak > 0
                                              THEN last_failure.backoff ELSE 0,
                                     streak |-> last_failure.streak + 1]
                /\ plan_result' = [plan_result EXCEPT ![w] = Failed(backend, outcome.exc)]
    /\ request_lock' = IF backend = "vlm" THEN 0 ELSE request_lock
    /\ ppc' = [ppc EXCEPT ![w] = "returned"]
    /\ UNCHANGED <<backend, client, next_vision_allowed_time, last_scene_key, pkey,
                   now>>
    /\ UNCHANGED orchVars

\* The 404 that releases the lock before the next URL is tried.
NotFoundReleases(w) ==
    /\ ppc[w] = "backend"
    /\ backend = "vlm"
    /\ ppc' = [ppc EXCEPT ![w] = "fallback"]
    /\ request_lock' = 0
    /\ UNCHANGED <<backend, client, next_allowed_time, failure_count,
                   next_vision_allowed_time, last_scene_key, pkey, last_failure,
                   plan_result, now>>
    /\ UNCHANGED orchVars

\* LocalVLMPlanner.plan, lines 106-109: the first URL of _chat_urls() answers
\* 404 and the loop goes on to the second, inside the same try.
NotFound(w) ==
    /\ ppc[w] = "backend"
    /\ backend = "vlm"
    /\ ppc' = [ppc EXCEPT ![w] = "fallback"]
    /\ UNCHANGED <<backend, client, next_allowed_time, failure_count, request_lock,
                   next_vision_allowed_time, last_scene_key, pkey, last_failure,
                   plan_result, now>>
    /\ UNCHANGED orchVars

\* The caller takes the result of plan().
PlanTaken(w) ==
    /\ ppc[w] = "returned"
    /\ ppc' = [ppc EXCEPT ![w] = "idle"]
    /\ UNCHANGED <<backend, client, next_allowed_time, failure_count, request_lock,
                   next_vision_allowed_time, last_scene_key, pkey, last_failure,
                   plan_result, now>>
    /\ UNCHANGED orchVars

\* Time passes.
Elapse(d, horizon) ==
    /\ now <= horizon
    /\ now' = now + d
    /\ UNCHANGED plannerVars
    /\ UNCHANGED orchVars

\* The caller comes back when the backoff window has expired.
AwaitWindow(horizon) ==
    /\ InWindow
    /\ now <= horizon
    /\ now' = next_allowed_time
    /\ UNCHANGED plannerVars
    /\ UNCHANGED orchVars

\* create_planner(): the backend PLANNER_BACKEND names; Gemini's client is
\* there when the SDK and the key are.
InitPlannerAny ==
    /\ backend \in {"gemini", "vlm", "hybrid"}
    /\ client \in (IF backend = "gemini" THEN BOOLEAN ELSE {TRUE})
    /\ next_allowed_time = 0
    /\ failure_count = 0
    /\ request_lock = 0
    /\ next_vision_allowed_time = 0
    /\ last_scene_key = <<>>
    /\ pkey = [w \in Workers |-> <<>>]
    /\ ppc = [w \in Workers |-> "idle"]
    /\ last_failure = NoFailure
    /\ plan_result = [w \in Workers |-> NoResponse]

InitP ==
    /\ InitOrchestrator
    /\ InitPlannerAny
    /\ now = 1

Outcomes ==
    {Outcome(TRUE, Text("object", FALSE), NoExc),
     Outcome(TRUE, Text("garbage", FALSE), NoExc),
     Outcome(FALSE, NoText, HTTP429),
     Outcome(FALSE, NoText, ReadTimeout)}

Pauses == {50}

ScreenKeys == {<<>>, screenshot_key(Shot("a"))}

NextPlanner ==
    \/ \E w \in Workers, key \in ScreenKeys : PlanCall(w, key, MaxClock)
    \/ \E w \in Workers, outcome \in Outcomes : VisionEnd(w, outcome)
    \/ \E w \in Workers, outcome \in Outcomes : PlanEnd(w, outcome)
    \/ \E w \in Workers : PlanTaken(w)
    \/ \E d \in Pauses : Elapse(d, MaxClock)

SpecPlanner == InitP /\ [][NextPlanner]_vars

\* One thread calls plan(), a call at a time, as one worker's ticks do.
SeqOutcomes ==
    {Outcome(TRUE, Text("object", FALSE), NoExc),
     Outcome(TRUE, Text("garbage", FALSE), NoExc),
     Outcome(TRUE, Text("empty", FALSE), NoExc),
     Outcome(FALSE, NoText, HTTP429),
     Outcome(FALSE, NoText, HTTP500),
     Outcome(FALSE, NoText, ReadTimeout)}

NextPlannerSeq ==
    \/ \E key \in ScreenKeys : PlanCall(1, key, MaxClockSeq)
    \/ \E outcome \in SeqOutcomes : VisionEnd(1, outcome)
    \/ \E outcome \in SeqOutcomes : PlanEnd(1, outcome)
    \/ PlanTaken(1)
    \/ AwaitWindow(MaxClockSeq)

SpecPlannerSeq == InitP /\ [][NextPlannerSeq]_vars

----------------------------------------------------------------------------
(* LocalVLMPlanner.plan() called from several threads at once.             *)

InitVlm == InitP /\ backend = "vlm"

VlmOutcomes ==
    {Outcome(TRUE, Text("object", FALSE), NoExc),
     Outcome(FALSE, NoText, HTTP404),
     Outcome(FALSE, NoText, ReadTimeout)}

NextVlm ==
    \/ \E w \in Workers, key \in ScreenKeys : PlanCall(w, key, MaxClock)
    \/ \E w \in Workers : NotFound(w)
    \/ \E w \in Workers, outcome \in VlmOutcomes : PlanEnd(w, outcome)
    \/ \E w \in Workers : PlanTaken(w)
    \/ \E d \in Pauses : Elapse(d, MaxClock)

SpecVlm == InitVlm /\ [][NextVlm]_vars

\* The last failed call's backoff window has not yet expired.
InBackoff == last_failure.at # 0 /\ now < last_failure.at + last_failure.backoff

\* C10: after a planner call fails at time t with computed backoff d, every
\* plan() call made before t + d returns the single-WAIT fallback at once,
\* without a backend request.
C10_BackoffRejectsLocally ==
    [][\A w \in Workers :
         (InBackoff /\ ppc[w] = "idle" /\ ppc'[w] # "idle")
            => (ppc'[w] = "returned" /\ IsFallback(plan_result'[w]))]_vars

----------------------------------------------------------------------------
(* Backoff durations.                                                      *)

\* C11: in a run of consecutive failures of the VLM planner, of any mix of
\* rate-limit-like and generic errors with no success in between, the backoff
\* computed for a failure is never smaller than the one computed for the
\* failure before it.
C11_BackoffNeverDecreases ==
    (backend = "vlm" /\ last_failure.streak >= 2)
        => last_failure.backoff >= last_failure.prev

Exceptions ==
    {HTTP429, HTTP500, HTTP404, ReadTimeout, QuotaExhausted,
     Exc(0, "rate limit exceeded", {"rate", "limit"}),
     Exc(0, "quota limit reached", {"limit"})}

\* A failure that looks like rate limiting: HTTP 429 or 5xx, or a message
\* with a rate or limit pattern.
LooksRateLimited(exc) ==
    exc.status = 429 \/ exc.status >= 500 \/ Mentions(exc, {"rate", "limit"})

\* A failure with no sign of rate limiting at all.
LooksGeneric(exc) ==
    /\ ~LooksRateLimited(exc)
    /\ ~Mentions(exc, {"429", "exhausted"})

\* C12: when a call has just failed with an error that looks like rate
\* limiting, the backoff computed for it is strictly larger than the backoff
\* the same backend gives a generic error at the same failure count.
C12_RateLimitBackoffLarger ==
    \A r \in Exceptions, g \in Exceptions :
        (/\ ppc[1] = "returned"
         /\ plan_result[1] = Failed(backend, r)
         /\ LooksRateLimited(r)
         /\ LooksGeneric(g))
            => last_failure.backoff > backoff_seconds(backend, g, failure_count)

\* The text request of the one caller has just returned.
Returns == ppc[1] = "backend" /\ ppc'[1] = "returned"

\* C13: a successful backend call clears the backoff timer (and the VLM's
\* failure count); the plan() call after it is not rejected locally but goes
\* to the backend; and the first failure after it gets the smallest backoff
\* of its kind (failure count 1).
C13_SuccessClearsBackoff ==
    [][/\ (Returns /\ last_failure'.streak = 0)
           => (/\ next_allowed_time' = 0
               /\ backend = "vlm" => failure_count' = 0)
       /\ (/\ last_failure.streak = 0
           /\ ppc[1] = "idle" /\ ppc'[1] # "idle"
           /\ client)
           => ppc'[1] \in {"backend", "vision"}
       /\ (Returns /\ last_failure.streak = 0 /\ last_failure'.streak = 1)
           => \E exc \in Exceptions :
                 /\ plan_result'[1] = Failed(backend, exc)
                 /\ last_failure'.backoff = backoff_seconds(backend, exc, 1)
                 /\ backend = "vlm" => failure_count' = 1]_vars

\* A call is at the backend after an earlier failure and a success since.
C13_Witness ==
    /\ ppc[1] = "backend"
    /\ last_failure.at # 0
    /\ last_failure.streak = 0
    /\ next_allowed_time = 0

----------------------------------------------------------------------------
(* Failures of the backend.                                                *)

\* The text request of the one caller has just raised.
Raises == Returns /\ last_failure'.streak = last_failure.streak + 1

\* C14: when the backend request raises, plan() returns exactly one WAIT step
\* whose rationale carries the failure reason and records a backoff instant
\* strictly in the future; that step, of confidence 0.5, passes the filters of
\* the loop and of the executor and is the only step run from the plan.
C14_FailureAbsorbed ==
    [][Raises =>
         LET response == plan_result'[1]
         IN  /\ IsFallback(response)
             /\ \E exc \in Exceptions : response = Failed(backend, exc)
             /\ next_allowed_time' > now'
             /\ ~ParseRaises(response)
             /\ Queued(response) = <<from_dict(response.actions[1])>>
             /\ Queued(response)[1].confidence < MIN_CONFIDENCE
             /\ Executed(Queued(response)) = Queued(response)
             /\ ~ExecuteRaises(Executed(Queued(response)))]_vars

\* A request has raised a server error and plan() has returned.
C14_Witness ==
    /\ ppc[1] = "returned"
    /\ last_failure.at = now
    /\ plan_result[1] = Failed(backend, HTTP500)

\* The backend has answered with content that is no plan and plan() has
\* returned the fallback for it.
Unparseable ==
    /\ ppc[1] = "returned"
    /\ last_failure.streak = 0
    /\ plan_result[1] \in {Fallback("Planner returned empty response."),
                           Fallback("Planner returned non-JSON response.")}

\* C15: when the backend answers with content that is empty or not JSON,
\* plan() returns the WAIT fallback and arms a backoff window, as it does for
\* a raised error.
C15_UnparseableArmsBackoff == Unparseable => InWindow

----------------------------------------------------------------------------
(* The steps of a plan: which are run, and how they are built.             *)

\* The ActionSteps from_dict builds for the raw steps of a response.
Built(response) ==
    [i \in 1..Len(response.actions) |-> from_dict(response.actions[i])]

\* The plan the loop holds has been parsed without an error.
Parsed == cached_plan_response # NoResponse /\ ~ParseRaises(cached_plan_response)

\* A step that is to run: a WAIT, or a step of confidence 0.55 or more (which
\* a confidence that is not a number is not).
ShouldRun(step) ==
    step.action = "WAIT" \/ (step.confidence # NaN /\ step.confidence >= MIN_CONFIDENCE)

C17_UnknownKindDropped ==
    /\ \A i \in 1..Len(pending_actions) :
          pending_actions[i].action \in SUPPORTED_ACTIONS
    /\ \A w \in Workers : \A i \in 1..Len(loc[w].run) :
          loc[w].run[i].action \in SUPPORTED_ACTIONS
    /\ state.last_action # summary(Built(PlanUnknown)[1])
    /\ Parsed =>
          \A i \in 1..Len(cached_plan_response.actions) :
              cached_plan_response.actions[i].action = JMissing
                  => Built(cached_plan_response)[i].action = "WAIT"

\* What repeat and hold_ms are to be for a raw value: the default for a value
\* that is missing or not a number, else the nearest value within the bounds.
Nearest(j, default, low, high) ==
    IF j.t # "num" THEN default
    ELSE IF j.v < low THEN low
    ELSE IF j.v > high THEN high
    ELSE j.v

\* C18: every step from_dict builds has repeat within [1, 10] and hold_ms
\* within [0, 2000]: a raw value out of range becomes the nearest bound, a
\* value that is missing or not a number becomes 1 and 0.
C18_RepeatAndHoldClamped ==
    Parsed =>
        \A i \in 1..Len(cached_plan_response.actions) :
            LET raw == cached_plan_response.actions[i]
                step == Built(cached_plan_response)[i]
            IN  /\ step.repeat \in 1..10
                /\ step.hold_ms \in 0..2000
                /\ step.repeat = Nearest(Get(raw, "repeat"), 1, 1, 10)
                /\ step.hold_ms = Nearest(Get(raw, "hold_ms"), 0, 0, 2000)
                /\ \A k \in 1..Len(pending_actions) :
                      pending_actions[k].repeat \in 1..10 /\ pending_actions[k].hold_ms \in 0..2000

\* A KEYPRESS asking for 11 repeats and a hold of 2500 ms is queued with 10
\* and 2000.
C18_Witness ==
    /\ cached_plan_response = PlanKeysOver
    /\ Len(pending_actions) = 1
    /\ pending_actions[1].action = "KEYPRESS"
    /\ pending_actions[1].repeat = 10
    /\ pending_actions[1].hold_ms = 2000

\* A step whose fields are within their ranges: confidence in [0, 1],
\* wait_seconds in [0, 30] and the target, if any, in [0, 1] x [0, 1].
InRange(step) ==
    /\ step.confidence \in 0..100
    /\ step.wait_seconds \in 0..300
    /\ step.target # <<>> => (step.target[1] \in 0..100 /\ step.target[2] \in 0..100)

\* C19: every step that is built has confidence within [0, 1], wait_seconds
\* within [0, 30] and target coordinates within [0, 1], so that no WAIT
\* blocks for more than 30 s and the adapter's pointer is never sent outside
\* the observation.
C19_FieldsClamped ==
    /\ \A i \in 1..Len(pending_actions) : InRange(pending_actions[i])
    /\ \A w \in Workers : \A i \in 1..Len(loc[w].run) : InRange(loc[w].run[i])
    /\ pointer # <<>>
          => /\ pointer[1] \in 0..last_capture_size[1]
             /\ pointer[2] \in 0..last_capture_size[2]

----------------------------------------------------------------------------
(* The executor's pixel coordinates.                                       *)

\* The last step with a target among the steps execute() runs, or <<>>.
RECURSIVE LastTarget(_)
LastTarget(actions) ==
    IF actions = <<>> THEN <<>>
    ELSE LET later == LastTarget(Tail(actions))
         IN  IF later # <<>> THEN later
             ELSE IF /\ Head(actions).action \in {"MOVE", "CLICK", "DOUBLE_CLICK", "DRAG"}
                     /\ Head(actions).target # <<>>
                  THEN Head(actions).target
                  ELSE <<>>

\* A target within the observation: both coordinates in [0, 1].
Normalized(target) == target[1] \in 0..100 /\ target[2] \in 0..100

\* floor(x * W), floor(y * H) for a target in hundredths.
Floors(target, size) == <<(target[1] * size[1]) \div 100, (target[2] * size[2]) \div 100>>

\* C20: execute() resolves a normalized target (x, y) to the pixel
\* (floor(x * W), floor(y * H)), where W x H is the size of the screenshot it
\* is given, else of the last screenshot an earlier call was given, else of
\* adapter.screen_size(); nothing but a call with a screenshot changes the
\* size that is kept.
C20_ResolvesToPixels ==
    [][/\ \A screenshot \in ExecScreens :
            ExecutorExecute(screenshot, MaxTimeExec)
                => LET size == IF screenshot # NoShot
                               THEN <<screenshot.width, screenshot.height>>
                               ELSE IF last_capture_size # <<>> THEN last_capture_size
                               ELSE AdapterSize
                       target == LastTarget(BeforeRaise(Executed(actions_to_run)))
                   IN  /\ last_capture_size' =
                            (IF screenshot # NoShot THEN size ELSE last_capture_size)
                       /\ (target # <<>> /\ Normalized(target))
                            => pointer' = Floors(target, size)
       /\ (\A screenshot \in ExecScreens \ {NoShot} :
               ~ExecutorExecute(screenshot, MaxTimeExec))
            => UNCHANGED last_capture_size]_vars

\* A CLICK at (0.5, 0.5) has been run against a screenshot of 1000 x 800 and the
\* adapter clicked at (500, 400).
C20_Witness ==
    /\ last_capture_size = <<1000, 800>>
    /\ pointer = <<500, 400>>
    /\ summaries = <<"CLICK @ (0.50,0.50) (0.90)">>

----------------------------------------------------------------------------
(* The order of a batch.                                                   *)

\* C21: execute() runs the steps of a batch in the order of the plan, each
\* to its end (a WAIT's delay included) before the next begins, and returns
\* their summaries in that order, none twice and none out of place.
C21_BatchInPlanOrder ==
    [][\A screenshot \in ExecScreens :
         ExecutorExecute(screenshot, MaxTimeExec)
             => LET kept == SelectSeq(actions_to_run, ShouldRun)
                    raises == \E i \in 1..Len(kept) :
                                 kept[i].action = "WAIT" /\ kept[i].wait_seconds < 0
                IN  /\ Len(dispatched') <= Len(kept)
                    /\ \A i \in 1..Len(dispatched') :
                          /\ dispatched'[i].step = kept[i]
                          /\ dispatched'[i].start =
                                (IF i = 1 THEN 0 ELSE dispatched'[i - 1].stop)
                          /\ dispatched'[i].stop = dispatched'[i].start
                                + (IF kept[i].action = "WAIT" THEN kept[i].wait_seconds
                                   ELSE 0)
                    /\ ~raises
                          => /\ Len(dispatched') = Len(kept)
                             /\ summaries' = [i \in 1..Len(kept) |-> summary(kept[i])]
                             /\ now' = now + (IF kept = <<>> THEN 0
                                              ELSE dispatched'[Len(kept)].stop)]_vars

\* A batch of two clicks at the same place, two waits and a move, with a
\* low-confidence click among them, has been run: five summaries, the click
\* first and last.
C21_Witness ==
    /\ Len(dispatched) = 5
    /\ dispatched[2].step.action = "WAIT" /\ dispatched[2].stop = 2
    /\ dispatched[3].step.action = "MOVE" /\ dispatched[3].start = 2
    /\ dispatched[5].stop = 3
    /\ summaries = <<"CLICK @ (0.10,0.10) (0.90)", "WAIT (0.00)",
                     "MOVE @ (0.20,0.20) (0.90)", "WAIT (0.90)",
                     "CLICK @ (0.10,0.10) (0.90)">>

(* The tick outside the activity window. *)
\* C22: on a tick where both window bounds are set and the local time is outside the window, the worker marks SLEEPING, decays affect once, writes exactly one snapshot, and makes no capture, no planner call and no adapter call before the next tick.
C22_SleepingTick ==
    [][\A w \in Workers :
         /\ \A tod \in TimesOfDay :
               (/\ WindowCheck(w, tod)
                /\ ParsesHM(state.active_window_start)
                /\ ParsesHM(state.active_window_stop)
                /\ (tod < HM(state.active_window_start) \/ tod > HM(state.active_window_stop)))
                   => /\ pc'[w] = "reflect"
                      /\ state'.agent_status = "SLEEPING"
                      /\ file' = <<state'>>
                      /\ state'.emotion_vector = state.emotion_vector
                      /\ snapshots' = snapshots
         /\ pc[w] = "reflect" /\ pc'[w] # "reflect"
               => /\ pc'[w] = "top"
                  /\ state'.agent_status = state.agent_status
                  /\ state'.emotion_vector =
                        [i \in 1..Len(state.emotion_vector) |->
                            (state.emotion_vector[i] * 97) \div 100]
                  /\ Len(snapshots') = Len(snapshots) + 1
                  /\ file' = <<state'>>
                  /\ now' = now + WindowSleep
         /\ pc[w] \in {"window", "reflect"} /\ pc'[w] \in {"reflect", "top"}
               => /\ last_vision_time' = last_vision_time
                  /\ last_screenshot' = last_screenshot
                  /\ plan_calls' = plan_calls
                  /\ ppc' = ppc /\ plan_result' = plan_result
                  /\ dispatched' = dispatched /\ pointer' = pointer
                  /\ summaries' = summaries]_vars

\* Two ticks outside the window "09:00"-"17:00" went by: two decays of 0.2, two
\* snapshots, nothing captured, planned or dispatched.
C22_Witness ==
    \E w \in Workers :
        /\ pc[w] = "top"
        /\ state.active_window_start = "09:00" /\ state.active_window_stop = "17:00"
        /\ state.agent_status = "SLEEPING"
        /\ state.emotion_vector = [i \in 1..10 |-> 1881]
        /\ Len(snapshots) = 2
        /\ last_vision_time = 0 /\ plan_calls = {} /\ dispatched = <<>>

(* The window check. *)
\* C23: with either bound absent the agent is always in its active window; with both bounds set (as times of day) it is in the window exactly when start <= now <= stop; so a window whose start is later than its stop never holds, at any time of day.
C23_WindowCheck ==
    [][\A w \in Workers : \A tod \in TimesOfDay :
         WindowCheck(w, tod)
            => LET start == state.active_window_start
                   stop == state.active_window_stop
                   absent(bound) == bound = PyNone \/ bound = ""
                   inside == pc'[w] = "observe" /\ state'.agent_status = "ACTIVE"
                   outside == pc'[w] = "reflect" /\ state'.agent_status = "SLEEPING"
               IN  /\ absent(start) \/ absent(stop) => inside
                   /\ ParsesHM(start) /\ ParsesHM(stop)
                        => /\ inside <=> (HM(start) <= tod /\ tod <= HM(stop))
                           /\ outside <=> ~(HM(start) <= tod /\ tod <= HM(stop))
                           /\ HM(start) > HM(stop) => outside]_vars

\* The window "17:00"-"09:00" put the worker to sleep.
C23_Witness ==
    \E w \in Workers :
        /\ pc[w] = "reflect"
        /\ state.active_window_start = "17:00" /\ state.active_window_stop = "09:00"
        /\ state.agent_status = "SLEEPING"

(* The affect vector. *)
\* C24: for every affect vector and every rate or delta, after decay_emotions(rate) or stimulate_emotions(delta) every component is in [0,1]: decay multiplies each component by (1 - rate), stimulate adds delta, the result is clamped, and the vector keeps its length.
C24_AffectClamped ==
    [][LET before == state.emotion_vector
           after == state'.emotion_vector
           bounded(x) == IF x = NaN THEN Unit
                         ELSE IF x < 0 THEN 0 ELSE IF x > Unit THEN Unit ELSE x
           kept == /\ Len(after) = Len(before)
                   /\ \A i \in 1..Len(after) : after[i] # NaN /\ 0 <= after[i] /\ after[i] <= Unit
       IN  /\ \A decay \in Decays :
                DecayEmotions(decay)
                    => /\ kept
                       /\ \A i \in 1..Len(before) :
                             before[i] # NaN /\ decay # NaN
                                => after[i] = bounded((before[i] * (100 - decay)) \div 100)
           /\ \A delta \in Deltas :
                StimulateEmotions(delta)
                    => /\ kept
                       /\ \A i \in 1..Len(before) :
                             before[i] # NaN /\ delta # NaN
                                => after[i] = bounded(before[i] + delta)]_vars

\* The vector -0.3, NaN, 1.2, 0.5 after one decay_emotions(0.03).
C24_Witness ==
    /\ cpc = "idle" /\ now = 2
    /\ file = <<[emotion_vector |-> <<-3000, NaN, 12000, 5000>>]>>
    /\ state.emotion_vector = <<0, Unit, Unit, 4850>>

\* C25: in every state the orchestrator reaches, the one right after loading any well-formed JSON state file included, the affect vector has exactly 10 components and each is in [0,1].
C25_TenComponentsInUnit ==
    cpc = "idle"
        => /\ Len(state.emotion_vector) = 10
           /\ \A i \in 1..Len(state.emotion_vector) :
                 /\ state.emotion_vector[i] # NaN
                 /\ 0 <= state.emotion_vector[i] /\ state.emotion_vector[i] <= Unit

(* Loading the state file. *)
\* C26: load never fails: for no state file, for a file that is not valid JSON and for one whose JSON is valid but no object it returns the all-defaults AgentState (STOPPED, GOAL, affect ten times 0.2, no last_action_time, no window bounds); for a JSON object every missing field takes its default.
C26_LoadNeverFails ==
    [][cpc = "construct" /\ cpc' # "construct"
        => LET isObject == file # <<>> /\ DOMAIN file[1] \subseteq DOMAIN DefaultState
           IN  /\ cpc' = "idle"
               /\ ~isObject
                    => /\ state'.agent_status = "STOPPED" /\ state'.current_mode = "GOAL"
                       /\ state'.emotion_vector = [i \in 1..10 |-> 2000]
                       /\ state'.last_action_time = 0
                       /\ state'.active_window_start = PyNone
                       /\ state'.active_window_stop = PyNone
                       /\ state'.current_goal = "" /\ state'.last_action = ""
               /\ isObject
                    => \A field \in DOMAIN DefaultState \ (DOMAIN file[1] \cup {"session_start_time"}) :
                          state'[field] = DefaultState[field]]_vars

(* The lock and the calls that take time. *)
\* C27 as written: while adapter.capture(), planner.plan(), an adapter operation or a sleep is executing, no thread holds the lock.
C27_NoThreadHoldsLock ==
    \A w \in Workers : pc[w] = "planning" => lock = "free"

\* C27: the lock is never held across an external call: the worker holds it for the test of the flag only, so not while it captures, plans, actuates or sleeps, and the caller holds it only inside start() and stop(), whose join is made after the release; a start() or stop() is therefore never kept waiting by a call in progress.
C27_NoLockAcrossExternalCall ==
    /\ lock \in {"free", "caller"}
    /\ lock = "caller" <=> cpc \in {"set_goal", "set_window", "spawn", "mark_stopped"}
    /\ cpc = "join" => lock = "free"

\* stop() took the lock while a worker's plan() call was in flight.
C27_Witness ==
    \E w \in Workers :
        /\ pc[w] = "planning"
        /\ lock = "caller" /\ cpc = "mark_stopped"

\* C28: every mutation of the shared state and every write of the state file that can run along with start() or stop() is made holding the lock, and no worker's mark_active, mark_sleeping, update_after_action or save overwrites what start() or stop() wrote.
C28_MutationsUnderLock ==
    [][\A w \in Workers :
         (Alive(w) /\ pc'[w] # pc[w] /\ cpc' = cpc)
            => /\ (state' # state \/ file' # file) => lock = "worker"
               /\ (cargs.op = "stop" /\ cpc = "join" /\ state.agent_status = "STOPPED")
                    => /\ state'.agent_status = "STOPPED"
                       /\ file'[1].agent_status = "STOPPED"]_vars

(* What is on disk. *)
\* C29: every mutator of the state manager writes the full state before it returns and every tick ends with a save after its direct change of the affect, so whenever the worker sleeps between two ticks the state file holds the state in memory.
C29_FileIsStateBetweenTicks ==
    \A w \in Workers : pc[w] = "top" => file = <<state>>

(* The queue of pending steps. *)
\* C30: every active tick with pending steps runs all of them in one batch and leaves the queue empty, so the queue is empty at the start of every tick and no step is carried over to a later tick.
C30_QueueEmptyAtTickStart ==
    \A w \in Workers :
        /\ pc[w] \in {"window", "observe"} => pending_actions = <<>>
        /\ pc[w] \in {"record", "finish", "persist"} => pending_actions = <<>>

(* A batch uses up the plan it came from. *)
\* C31: after a tick has executed a batch the cached plan is marked consumed and the capture marker is cleared, so the next active tick takes a fresh capture however little time has passed, and a cached plan is never executed twice: at most one batch per call of the planner.
C31_BatchConsumesPlan ==
    [][\A w \in Workers :
         /\ pc[w] = "record" /\ pc'[w] # "record"
               => cached_plan_consumed' /\ last_vision_time' = 0
         /\ pc[w] = "observe" /\ pc'[w] # "observe" /\ since_plan.batches > 0
               => last_vision_time' = now
         /\ since_plan'.batches <= 1]_vars

(* The capture interval. *)
\* C32 as written: a fresh capture is taken only with no capture marker or when more than 5 seconds have gone by since the last capture.
C32_CaptureOnlyAfterMoreThanInterval ==
    [][\A w \in Workers :
         (pc[w] = "observe" /\ pc'[w] # "observe" /\ last_vision_time' # last_vision_time)
            => last_vision_time = 0 \/ now - last_vision_time > 50]_vars

\* C32: on an active tick a fresh capture is taken exactly when there is no capture marker (the first tick, or a batch has cleared it) or at least 5 seconds have gone by since the last capture; otherwise the adapter is not asked and the last observation is used again, so two captures with no batch between them are at least 5 seconds apart.
C32_CaptureInterval ==
    [][\A w \in Workers :
         (pc[w] = "observe" /\ pc'[w] # "observe")
            => IF last_vision_time = 0 \/ now - last_vision_time >= 50
               THEN /\ last_vision_time' = now
                    /\ last_screenshot' \in Screens
                    /\ loc'[w].shot = last_screenshot'
               ELSE /\ last_vision_time' = last_vision_time
                    /\ last_screenshot' = last_screenshot
                    /\ loc'[w].shot = last_screenshot]_vars

\* No batch was ever executed, the first capture was taken at 0.1 s and the worker has just taken the next one, at 5.1 s.
C32_Witness ==
    \E w \in Workers :
        /\ pc[w] = "planning"
        /\ dispatched = <<>>
        /\ last_vision_time = 51 /\ now = 51
        /\ \E key \in plan_calls : key[2] = 1
        /\ \A key \in plan_calls : key[2] \in {1, 51}

(* The end of an active tick. *)
\* C33 as written: every active tick ends with stimulate (+0.02), save, snapshot, sleep, in this order; the sleep is 0.1 s after a batch whose last step was WAIT, 0.5 s after a batch whose last step was not WAIT, and 0.2 s whenever the tick had no plan, a plan with no eligible step included; 0.1 < 0.2 < 0.5.
C33_ReducedSleepWithoutBatch ==
    [][\A w \in Workers :
         /\ pc[w] = "finish" /\ pc'[w] # "finish"
               => /\ state'.emotion_vector =
                        [i \in 1..10 |-> IF state.emotion_vector[i] + 200 > 10000 THEN 10000
                                         ELSE state.emotion_vector[i] + 200]
                  /\ loc'[w].dump = <<state'>>
                  /\ file' = file /\ snapshots' = snapshots /\ now' = now
         /\ pc[w] = "persist" /\ pc'[w] # "persist"
               => LET run == loc[w].run
                  IN  /\ file' = loc[w].dump
                      /\ Len(snapshots') = Len(snapshots) + 1
                      /\ now' - now = IF run = <<>> THEN 2
                                      ELSE IF run[Len(run)].action = "WAIT" THEN 1
                                      ELSE 5
         /\ ShortSleep < ReducedSleep /\ ReducedSleep < DefaultSleep]_vars

\* C33: every active tick ends with stimulate (+0.02), save, snapshot, sleep, in this order; the sleep is 0.1 s after a batch whose last step was WAIT and 0.5 s after a batch whose last step was not WAIT; with no batch it is 0.2 s when the planner gave no plan or the cached plan was consumed already, and 0.5 s when there was a plan but none of its steps was eligible; 0.1 < 0.2 < 0.5.
C33_TickEnd ==
    [][\A w \in Workers :
         /\ pc[w] = "finish" /\ pc'[w] # "finish"
               => /\ state'.emotion_vector =
                        [i \in 1..10 |-> IF state.emotion_vector[i] + 200 > 10000 THEN 10000
                                         ELSE state.emotion_vector[i] + 200]
                  /\ loc'[w].dump = <<state'>>
                  /\ file' = file /\ snapshots' = snapshots /\ now' = now
         /\ pc[w] = "persist" /\ pc'[w] # "persist"
               => LET run == loc[w].run
                      noPlan == cached_plan_response = NoResponse \/ cached_plan_consumed
                  IN  /\ file' = loc[w].dump
                      /\ Len(snapshots') = Len(snapshots) + 1
                      /\ now' - now = IF run = <<>> THEN (IF noPlan THEN 2 ELSE 5)
                                      ELSE IF run[Len(run)].action = "WAIT" THEN 1
                                      ELSE 5
         /\ ShortSleep < ReducedSleep /\ ReducedSleep < DefaultSleep]_vars

\* The first tick ran a CLICK and a WAIT of 0 s and has ended: one stimulus, the state on disk, one snapshot, and 0.1 s of sleep.
C33_Witness ==
    \E w \in Workers :
        /\ pc[w] = "top" /\ now = 2
        /\ Len(dispatched) = 2 /\ dispatched[2].step.action = "WAIT"
        /\ state.emotion_vector = [i \in 1..10 |-> 2200]
        /\ file = <<state>>
        /\ snapshots = <<0>>

\* C34: a batch's summaries reach the action log in order, each one unless the
\* entry logged immediately before it carries the same summary and the same
\* plan fingerprint; so the log never holds two consecutive entries with the
\* same (summary, plan_key), a summary that differs from the previous logged
\* pair is always logged, and lastAction becomes the batch's last summary
\* whether that summary was logged or not.
C34_LastEntry(log) == IF log = <<>> THEN <<>> ELSE log[Len(log)]

C34_Kept(log, sums, key) ==
    LET n == Len(sums)
        pair(i) == <<sums[i], key>>
        prev(i) == IF i = 1 THEN C34_LastEntry(log) ELSE pair(i - 1)
        idx == SelectSeq([i \in 1..n |-> i], LAMBDA i : pair(i) # prev(i))
    IN  [j \in 1..Len(idx) |-> pair(idx[j])]

C34_LogDedup ==
    [][\A w \in Workers :
         pc[w] = "record" /\ pc'[w] # "record" =>
            /\ action_log' = action_log \o C34_Kept(action_log, loc[w].sums, cached_plan_key)
            /\ \A i \in 2..Len(action_log') : action_log'[i] # action_log'[i - 1]
            /\ loc[w].sums # <<>> =>
                  /\ state'.last_action = loc[w].sums[Len(loc[w].sums)]
                  /\ state'.last_action_time = now]_vars

\* A batch that repeats a summary was recorded: CLICK, CLICK, WAIT, CLICK under
\* one plan left three entries, and lastAction is the CLICK.
C34_Witness ==
    /\ Len(action_log) = 3
    /\ action_log[1] = action_log[3]
    /\ action_log[1] # action_log[2]
    /\ \E w \in Workers : pc[w] = "finish" /\ Len(loc[w].sums) = 4
    /\ state.last_action = action_log[3][1]

\* C35: the adapter receives a primitive call only for a step that carries the
\* operand of its kind: move, click with clicks=1 and click with clicks=2 for
\* a MOVE, CLICK and DOUBLE_CLICK with a target, at the resolved target; drag
\* for a DRAG with a target, from the centre of the screen to the resolved
\* target; type_text for a TYPE with non-empty text; keypress for a KEYPRESS
\* with a non-empty key list, with the step's repeat and hold_ms; none for
\* WAIT and FOCUS_WINDOW; and never more than one call for a step.
C35_CallsNeedOperands ==
    \A i \in 1..Len(dispatched) :
       LET step == dispatched[i].step
           calls == dispatched[i].calls
           at == resolve_coords(step.target, last_capture_size)
           centre == <<AdapterSize[1] \div 2, AdapterSize[2] \div 2>>
       IN  /\ Len(calls) <= 1
           /\ step.action \in {"WAIT", "FOCUS_WINDOW"} => calls = <<>>
           /\ \A k \in 1..Len(calls) :
                 /\ calls[k].op = "move" =>
                       step.action = "MOVE" /\ step.target # <<>> /\ calls[k].args = at
                 /\ calls[k].op = "click" =>
                       /\ step.action \in {"CLICK", "DOUBLE_CLICK"}
                       /\ step.target # <<>>
                       /\ calls[k].args =
                             <<at, IF step.action = "CLICK" THEN 1 ELSE 2>>
                 /\ calls[k].op = "drag" =>
                       /\ step.action = "DRAG" /\ step.target # <<>>
                       /\ calls[k].args = <<centre, at>>
                 /\ calls[k].op = "type_text" =>
                       /\ step.action = "TYPE" /\ step.text \notin {PyNone, ""}
                       /\ calls[k].args = <<step.text>>
                 /\ calls[k].op = "keypress" =>
                       /\ step.action = "KEYPRESS" /\ step.keys # <<>>
                       /\ calls[k].args = <<step.keys, step.repeat, step.hold_ms>>
                 /\ calls[k].op = "scroll" => step.action = "SCROLL"

\* One batch held a CLICK without a target, which reached no primitive, a
\* DRAG from the centre of the screen, a TYPE and a KEYPRESS with repeat 2 and
\* hold_ms 100.
C35_Witness ==
    /\ Len(dispatched) = 7
    /\ dispatched[1].step.action = "CLICK" /\ dispatched[1].calls = <<>>
    /\ dispatched[2].calls = <<AdapterCall("drag", <<<<640, 360>>, <<290, 8>>>>)>>
    /\ dispatched[3].calls = <<AdapterCall("type_text", <<"hi">>)>>
    /\ dispatched[4].calls = <<AdapterCall("keypress", <<<<"ctrl", "c">>, 2, 100>>)>>
    /\ dispatched[5].calls = <<AdapterCall("scroll", <<2, -1>>)>>
    /\ dispatched[7].calls = <<AdapterCall("click", <<<<500, 400>>, 1>>)>>
    /\ summaries[4] = "KEYPRESS(ctrl+cx2 hold=100ms) (0.90)"

\* C36: only a step that was actually executed yields a summary: a step the
\* dispatch table skips (MOVE, CLICK, DOUBLE_CLICK or DRAG without a target,
\* TYPE without text, KEYPRESS without keys) adds nothing to the summaries of
\* its batch, and a batch of skipped steps alone leaves the action log,
\* lastAction and lastActionTime as they were.
C36_Skipped(step) ==
    \/ step.action \in {"MOVE", "CLICK", "DOUBLE_CLICK", "DRAG"} /\ step.target = <<>>
    \/ step.action = "TYPE" /\ step.text \in {PyNone, ""}
    \/ step.action = "KEYPRESS" /\ step.keys = <<>>

C36_SummaryOnlyForExecuted ==
    [][\A w \in Workers :
         pc[w] = "record" /\ pc'[w] # "record" =>
            LET acted == SelectSeq(dispatched, LAMBDA d : ~C36_Skipped(d.step))
            IN  /\ Len(loc[w].sums) = Len(acted)
                /\ acted = <<>> =>
                      /\ action_log' = action_log
                      /\ state'.last_action = state.last_action
                      /\ state'.last_action_time = state.last_action_time]_vars

\* C37: update_after_action(summary) sets lastAction to the summary and
\* lastActionTime to the current time, makes the status ACTIVE, sets the
\* monologue to the summary only if the monologue was empty, and leaves goal,
\* task, mode, affect, sessionStart and the window bounds alone; after a
\* batch lastAction is the summary of the last executed step and the
\* monologue, if it was empty, that of the first.
C37_UpdateAfterAction ==
    [][\A w \in Workers :
         pc[w] = "record" /\ pc'[w] # "record" /\ loc[w].sums # <<>> =>
            LET sums == loc[w].sums
            IN  /\ state'.last_action = sums[Len(sums)]
                /\ state'.last_action_time = now
                /\ state'.agent_status = "ACTIVE"
                /\ state'.inner_monologue_summary =
                      (IF state.inner_monologue_summary = "" THEN sums[1]
                       ELSE state.inner_monologue_summary)
                /\ state'.current_goal = state.current_goal
                /\ state'.current_task = state.current_task
                /\ state'.current_mode = state.current_mode
                /\ state'.emotion_vector = state.emotion_vector
                /\ state'.session_start_time = state.session_start_time
                /\ state'.time_active_today = state.time_active_today
                /\ state'.active_window_start = state.active_window_start
                /\ state'.active_window_stop = state.active_window_stop]_vars

\* A batch of a CLICK and a WAIT was folded into a state whose monologue was
\* empty: lastAction is the WAIT, the monologue the CLICK.
C37_Witness ==
    \E w \in Workers :
       /\ pc[w] = "finish" /\ Len(loc[w].sums) = 2
       /\ loc[w].sums[1] # loc[w].sums[2]
       /\ state.last_action = loc[w].sums[2]
       /\ state.inner_monologue_summary = loc[w].sums[1]
       /\ state.last_action_time = now
       /\ state.agent_status = "ACTIVE"

\* C38 as stated: with a single worker, between two consecutive calls of
\* planner.plan() a batch was executed or a fresh capture was taken.
C38_Changed ==
    <<state.current_goal, state.current_task, state.current_mode>>
        # <<cached_plan_key[3], cached_plan_key[4], cached_plan_key[5]>>

C38_PlanAfterBatchOrCapture ==
    [][\A w \in Workers :
         PlansNow(w) /\ cached_plan_key # <<>>
            => since_plan.batches > 0 \/ since_plan.captures > 0 \/ Captures]_vars

\* C38 amended: with a single worker, between two consecutive calls of
\* planner.plan() a batch was executed, a fresh capture was taken or the
\* goal, task or mode was changed; so while the plans have no eligible step
\* and the goal, task and mode stay as they are, the planner is called at
\* most once per capture interval of 5 s, and the ticks in between use the
\* cached plan without a call.
C38_PlanAfterBatchCaptureOrChange ==
    [][\A w \in Workers :
         /\ PlansNow(w) /\ cached_plan_key # <<>>
               => \/ since_plan.batches > 0
                  \/ since_plan.captures > 0
                  \/ Captures
                  \/ C38_Changed
         /\ (/\ PlansNow(w) /\ cached_plan_key # <<>>
             /\ since_plan.batches = 0 /\ ~C38_Changed)
               => now - cached_plan_key[2] >= CaptureInterval
         /\ (/\ pc[w] = "observe" /\ pc'[w] # "observe"
             /\ cached_plan_key # <<>> /\ since_plan.batches = 0 /\ ~C38_Changed
             /\ now - cached_plan_key[2] < CaptureInterval)
               => plan_calls' = plan_calls]_vars

\* Five seconds after a plan with no eligible step, with the goal as it was
\* and no batch in between, the worker is in planner.plan() again.
C38_Witness ==
    \E w \in Workers :
       /\ pc[w] = "planning" /\ dispatched = <<>>
       /\ cached_plan_response = PlanLow
       /\ loc[w].key[2] - cached_plan_key[2] = CaptureInterval
       /\ loc[w].key[3] = cached_plan_key[3]
       /\ Cardinality(plan_calls) = 2

\* C39: LocalVLMPlanner.plan() called from several threads never has two
\* backend requests in flight: the thread whose request is in flight holds
\* the request lock and nobody else does; a caller that finds the lock taken
\* returns the WAIT fallback without a request and leaves next_allowed_time
\* at least 1 s ahead; the lock is free again whenever its holder leaves
\* plan(), by a success, a failure or a 404 on every URL, and no step of a
\* thread that does not hold it frees it.
C39_InFlight(w) == ppc[w] \in {"backend", "fallback"}

C39_OneRequestInFlight ==
    /\ [](/\ Cardinality({w \in Workers : C39_InFlight(w)}) <= 1
          /\ \A w \in Workers : C39_InFlight(w) <=> request_lock = w)
    /\ [][\A w \in Workers :
            /\ (ppc[w] = "idle" /\ ppc'[w] # "idle" /\ request_lock # 0 /\ ~InWindow)
                  => /\ ppc'[w] = "returned"
                     /\ plan_result'[w].actions[1].action = JStr("WAIT")
                     /\ next_allowed_time' >= now + 10
                     /\ request_lock' = request_lock
            /\ (C39_InFlight(w) /\ ppc'[w] = "returned") => request_lock' = 0
            /\ (ppc'[w] # ppc[w] /\ request_lock' # request_lock)
                  => request_lock = w \/ request_lock' = w]_vars

\* While one thread's request is in flight on the second URL, after a 404 on
\* the first, another thread's call came back with the busy fallback.
C39_Witness ==
    \E w, v \in Workers :
       /\ ppc[w] = "fallback" /\ request_lock = w
       /\ ppc[v] = "returned"
       /\ plan_result[v] =
             Fallback("Planner busy; waiting for previous request to finish.")
       /\ next_allowed_time >= now + 10

\* C40: every tick's snapshot is retained: no tick writes its snapshot to the
\* file of an earlier one, so the directory holds as many snapshots as ticks
\* have written, also when several ticks end within one second.
C40_EverySnapshotRetained ==
    Cardinality({snapshots[i] : i \in 1..Len(snapshots)}) = Len(snapshots)
====
